---------------------------- MODULE Spec2Model ----------------------------
(***************************************************************************)
(* State-machine model of the programs of cpp-atomic-mutex-lock-free.      *)
(*                                                                         *)
(* Every program of the repository is a separate executable with its own   *)
(* globals, so every program has its own specification over one shared     *)
(* list of variables; a specification leaves the variables of the other    *)
(* programs at their initial values.                                       *)
(*                                                                         *)
(*   SpecStack    06_lockfree_stack.cpp     LockFreeStack push / pop       *)
(*   SpecAtomic   02_atomic.cpp             fetch_add counter              *)
(*   SpecCas      05_lockfree_increment.cpp CAS-loop counter               *)
(*   SpecBounded  04_cas_bounded.cpp        CAS-loop counter with ceiling  *)
(*   SpecHandshake 07_producer_consumer.cpp release/acquire handshake,     *)
(*                 08_polling_vs_lockfree.cpp its polling demonstration    *)
(*   SpecBackoff, SpecBackoffReset  09_cas_with_backoff.cpp                *)
(*   SpecSequential, SpecStackFair, SpecTeardown  06 under one thread,     *)
(*                 a fair scheduler, and with the destructor after join    *)
(*   SpecPublish   06 with the memory orders of its loads and CASes        *)
(*   SpecCounterLoops, SpecLoops  the CAS loops of 04, 05, 06, 08, 09      *)
(*   SpecNonBlocking  06 and 05 with one thread suspended for ever         *)
(*   SpecBroken    03_atomic_broken.cpp       two relaxed stores           *)
(*   SpecHandshakeFair  07 and 08 under a fair scheduler                   *)
(*                                                                         *)
(* One action is one atomic access of shared memory together with the      *)
(* thread-local computation that follows it.                               *)
(***************************************************************************)
EXTENDS Integers, FiniteSets, Sequences, TLC

(***************************************************************************)
(* Bounds of the model.                                                    *)
(***************************************************************************)
\* 06_lockfree_stack.cpp lines 78-81: 2 pushers, 2 poppers
NPushers == 2
NPoppers == 2
\* number of heap addresses operator new can hand out
NAddr == 2
\* number of push/pop calls issued in one run (the source loops 100'000 times)
MaxOps == 7
MaxFairOps == 5
MaxPubOps == 4
\* payload values are 1..MaxVal
MaxVal == 1

\* 02_atomic.cpp line 27, 04_cas_bounded.cpp line 41,
\* 05_lockfree_increment.cpp line 37: for (int i = 0; i < 4; ++i)
NWorkers == 4
\* number of loop iterations of one CAS-loop worker (the source loops
\* 1'000'000 times)
MaxIter == 2
\* number of loop iterations of one fetch_add worker (the source loops
\* 1'000'000 times)
MaxAdds == 3
\* number of unsuccessful polls polling_consumer counts in spin_count
MaxSpin == 2
\* the bounded counter is started from 0 and from Ceiling - MaxGap .. Ceiling
MaxGap == 3
\* number of loop iterations of one worker of 09_cas_with_backoff.cpp
\* (ITERATIONS, line 16, is 100000)
MaxRounds == 1
\* number of failed compare-exchanges in one test of 09_cas_with_backoff.cpp
MaxFails == 8

\* 04_cas_bounded.cpp line 14: while (old < 100 && ...)
Ceiling == 100

\* the null pointer
Null == 0

Addr == 1..NAddr
Ptr == Addr \cup {Null}
Values == 1..MaxVal
Pushers == 1..NPushers
Poppers == (NPushers + 1)..(NPushers + NPoppers)
StackThreads == Pushers \cup Poppers
Workers == 1..NWorkers
Locs == {"data", "ready"}
HsThreads == {"main", "producer", "consumer"}

VARIABLES
    \* ---- 06_lockfree_stack.cpp ----
    head,       \* LockFreeStack::head
    alive,      \* the addresses that hold a constructed, not yet deleted Node
    val,        \* Node::value, per address (memory keeps its bytes after delete)
    nxt,        \* Node::next, per address
    pc,         \* per thread: the position inside push / pop
    old_head,   \* per thread: the local old_head
    new_node,   \* per thread: the local new_node of push
    next,       \* per thread: the local next of pop
    value,      \* per thread: the caller's int that pop(int&) writes
    ret,        \* per thread: what the last pop returned ("none" before any)
    ops,        \* number of push/pop calls started
    pushed,     \* history: value -> number of push(value) calls
    popped,     \* history: value -> number of pops that returned it
    changed,    \* history, per thread: another thread's CAS wrote head since
                \*   this thread's last observation of head
    dangling,   \* history, per thread: the Node old_head pointed to when it was
                \*   observed has been deleted since (or was deleted already)
    lastFail,   \* history, per thread: why the compare_exchange_weak the
                \*   thread has just executed failed ("none" if its latest
                \*   step was not a failed compare_exchange_weak)
    uaf,        \* history: some thread dereferenced a deleted Node
    doubleFree, \* history: some thread deleted a Node that was deleted already
    freed,      \* history: the addresses whose Node has been deleted and
                \*   that no later new has returned
    \* ---- 02_atomic.cpp, 04_cas_bounded.cpp, 05_lockfree_increment.cpp ----
    counter,    \* std::atomic<int> counter
    cpc,        \* per worker: the position inside the worker's loop body
    old,        \* per worker: the local old of the CAS loop
    iter,       \* per worker: the loop variable i, the calls completed
    joined,     \* main has joined every worker
    final,      \* the value of counter main reads after the joins
    succ,       \* history: number of compare-exchanges that succeeded
    attempted,  \* history, per worker: the call in progress has attempted
                \*   a compare-exchange
    moved,      \* history, per worker: another worker's compare-exchange has
                \*   succeeded since this worker's last observation of counter
    \* ---- 09_cas_with_backoff.cpp (with counter, cpc, old, iter, joined,
    \*      final and succ for the test that runs) ----
    backoff,    \* per worker: the local backoff of worker_with_backoff
    failed,     \* failed_cas_count_no_backoff / failed_cas_count_with_backoff
    streak,     \* history, per worker: the failed compare-exchanges in a
                \*   row of the iteration in progress
    paused,     \* history, per worker: the pause instructions executed
                \*   after the latest failed compare-exchange of the
                \*   iteration in progress
    \* ---- 07_producer_consumer.cpp, 08_polling_vs_lockfree.cpp ----
    prog,       \* which program runs
    mem,        \* per location: the writes to it, in modification order
    view,       \* per thread and location: the latest write the thread is
                \*   ordered after (happens-before or coherence)
    hpc,        \* per thread: its position
    phase,      \* 1 while main runs Test 1, 2 while it runs Test 2
    rdy,        \* the consumer's temporary: what its last ready.load returned
    tmp,        \* the consumer's temporary: what its last read of data returned
    out,        \* what the consumers have streamed to std::cout
    spin_count, \* the local spin_count of polling_consumer
    \* ---- 03_atomic_broken.cpp (with mem, view and hpc for x and y and
    \*      the positions of its threads) ----
    val_x,      \* the local val_x of reader_thread
    val_y,      \* the local val_y of reader_thread
    inconsistent_count, \* main's inconsistent_observations, which
                \*   reader_thread counts up through its reference
    loop_i,     \* per thread: the loop variable i of its thread function
    seen,       \* history: the pairs <<val_x, val_y>> reader_thread has
                \*   tested at line 27
    \* ---- the operating system's scheduler ----
    suspended   \* the threads that the scheduler never runs again

stackVars ==
    <<head, alive, val, nxt, pc, old_head, new_node, next, value, ret, ops,
      pushed, popped, changed, dangling, lastFail, uaf, doubleFree, freed>>

counterVars ==
    <<counter, cpc, old, iter, joined, final, succ, attempted, moved>>

hsVars == <<prog, mem, view, hpc, phase, rdy, tmp, out, spin_count>>

bkVars == <<backoff, failed, streak, paused>>

brokenVars == <<val_x, val_y, inconsistent_count, loop_i, seen>>

schedVars == <<suspended>>

programVars == <<stackVars, counterVars, bkVars, hsVars, brokenVars>>

vars == <<programVars, schedVars>>

\* what the actions of one program leave unchanged: the other programs
notStack == <<counterVars, bkVars, hsVars, schedVars, brokenVars>>
notCounter == <<stackVars, bkVars, hsVars, schedVars, brokenVars>>
notHs == <<stackVars, counterVars, bkVars, schedVars, brokenVars>>
notBackoff == <<stackVars, hsVars, schedVars, brokenVars>>

\* the scheduler keeps running every thread
AllScheduled == suspended = {}

\* 03_atomic_broken.cpp: the threads that main starts (lines 39-40)
BrokenThreads == {"writer", "reader"}

\* the locals of 03_atomic_broken.cpp before its threads run; line 37:
\* int inconsistent_observations = 0
BrokenIdle ==
    /\ val_x = 0
    /\ val_y = 0
    /\ inconsistent_count = 0
    /\ loop_i = [t \in BrokenThreads |-> 0]
    /\ seen = {}

(***************************************************************************)
(* The globals of 07_producer_consumer.cpp before main runs its tests.     *)
(***************************************************************************)
\* the view of a thread that is ordered after the static initialisation only
Bottom == [l \in Locs |-> 1]

\* int data = 0; std::atomic<bool> ready{false}; main is about to run Test 1
HsIdle ==
    /\ prog = "producer_consumer"
    /\ spin_count = 0
    /\ mem = [l \in Locs |->
                <<[val |-> IF l = "data" THEN 0 ELSE FALSE, rel |-> Bottom]>>]
    /\ view = [t \in HsThreads |-> Bottom]
    /\ hpc = [t \in HsThreads |-> IF t = "main" THEN "data" ELSE "off"]
    /\ phase = 1
    /\ rdy = FALSE
    /\ tmp = 0
    /\ out = <<>>

\* the variables of the handshake programs while program p runs
Running(p) ==
    /\ prog = p
    /\ spin_count = 0
    /\ mem = [l \in Locs |->
                <<[val |-> IF l = "data" THEN 0 ELSE FALSE, rel |-> Bottom]>>]
    /\ view = [t \in HsThreads |-> Bottom]
    /\ hpc = [t \in HsThreads |-> "off"]
    /\ phase = 1
    /\ rdy = FALSE
    /\ tmp = 0
    /\ out = <<>>

(***************************************************************************)
(* 06_lockfree_stack.cpp                                                   *)
(***************************************************************************)
StackIdleOver(V) ==
    /\ head = Null
    /\ alive = {}
    /\ val = [a \in Addr |-> 0]
    /\ nxt = [a \in Addr |-> Null]
    /\ pc = [t \in StackThreads |-> "idle"]
    /\ old_head = [t \in StackThreads |-> Null]
    /\ new_node = [t \in StackThreads |-> Null]
    /\ next = [t \in StackThreads |-> Null]
    /\ value = [t \in StackThreads |-> 0]
    /\ ret = [t \in StackThreads |-> "none"]
    /\ ops = 0
    /\ pushed = [v \in V |-> 0]
    /\ popped = [v \in V |-> 0]
    /\ changed = [t \in StackThreads |-> FALSE]
    /\ dangling = [t \in StackThreads |-> FALSE]
    /\ lastFail = [t \in StackThreads |-> "none"]
    /\ uaf = FALSE
    /\ doubleFree = FALSE
    /\ freed = {}

StackIdle == StackIdleOver(Values)

\* An observation that keeps the value the thread saw before.
ObserveStale(t) ==
    /\ old_head' = old_head
    /\ changed' = [changed EXCEPT ![t] = FALSE]
    /\ dangling' = dangling

\* head.load(): the thread's observation of head starts here
Observe(t) ==
    /\ old_head' = [old_head EXCEPT ![t] = head]
    /\ changed' = [changed EXCEPT ![t] = FALSE]
    /\ dangling' = [dangling EXCEPT ![t] = head /= Null /\ head \notin alive]

\* compare_exchange_weak compares the bits of head with the bits of expected
CasMatches(expected) == head = expected

\* a successful compare_exchange_weak(old_head, desired) by thread t
CasSuccess(t, desired) ==
    /\ CasMatches(old_head[t])
    /\ head' = desired
    /\ changed' = [u \in StackThreads |-> IF u = t THEN FALSE ELSE TRUE]

\* A failed compare_exchange_weak that is retried only when no other thread
\* is inside a call.
CasFailureWaits(t) ==
    /\ \A u \in StackThreads \ {t} : pc[u] = "idle"
    /\ head' = head
    /\ old_head' = [old_head EXCEPT ![t] = head]
    /\ changed' = [changed EXCEPT ![t] = FALSE]
    /\ dangling' = [dangling EXCEPT ![t] = head /= Null /\ head \notin alive]
    /\ lastFail' = [lastFail EXCEPT ![t] = "contended"]

\* a failed compare_exchange_weak: head differs, or the weak form fails
\* spuriously; either way old_head is reloaded from head
CasFailure(t) ==
    /\ head' = head
    /\ Observe(t)
    /\ lastFail' = [lastFail EXCEPT ![t] =
                      IF CasMatches(old_head[t]) THEN "spurious"
                      ELSE "contended"]

\* lines 62 and 22: a worker_push thread calls push(v),
\* Node* new_node = new Node(value)
PushBegin(t, v) ==
    /\ pc[t] = "idle"
    /\ ops < MaxOps
    /\ \E a \in Addr \ alive :
        /\ alive' = alive \cup {a}
        /\ val' = [val EXCEPT ![a] = v]
        /\ nxt' = [nxt EXCEPT ![a] = Null]
        /\ new_node' = [new_node EXCEPT ![t] = a]
        /\ freed' = freed \ {a}
    /\ ops' = ops + 1
    /\ pushed' = [pushed EXCEPT ![v] = @ + 1]
    /\ pc' = [pc EXCEPT ![t] = "push_load"]
    /\ UNCHANGED <<notStack, lastFail, head, old_head, next, value, ret,
                   popped, changed, dangling, uaf, doubleFree>>

\* line 23: Node* old_head = head.load(relaxed)
PushLoad(t) ==
    /\ pc[t] = "push_load"
    /\ Observe(t)
    /\ pc' = [pc EXCEPT ![t] = "push_link"]
    /\ UNCHANGED <<notStack, lastFail, head, alive, val, nxt, new_node, next,
                   value, ret, ops, pushed, popped, uaf, doubleFree, freed>>

\* line 25: new_node->next = old_head
PushLink(t) ==
    /\ pc[t] = "push_link"
    /\ nxt' = [nxt EXCEPT ![new_node[t]] = old_head[t]]
    /\ pc' = [pc EXCEPT ![t] = "push_cas"]
    /\ lastFail' = [lastFail EXCEPT ![t] = "none"]
    /\ UNCHANGED <<notStack, head, alive, val, old_head, new_node, next,
                   value, ret, ops, pushed, popped, changed, dangling, uaf,
                   doubleFree, freed>>

\* lines 32-34: head.compare_exchange_weak(old_head, new_node) succeeds
PushCasOk(t) ==
    /\ pc[t] = "push_cas"
    /\ CasSuccess(t, new_node[t])
    /\ pc' = [pc EXCEPT ![t] = "idle"]
    /\ old_head' = [old_head EXCEPT ![t] = Null]
    /\ new_node' = [new_node EXCEPT ![t] = Null]
    /\ dangling' = [dangling EXCEPT ![t] = FALSE]
    /\ UNCHANGED <<notStack, lastFail, alive, val, nxt, next, value, ret, ops,
                   pushed, popped, uaf, doubleFree, freed>>

\* A failed compare_exchange_weak in a loop that keeps the expected value
\* it started with.
PushCasFailStale(t) ==
    /\ pc[t] = "push_cas"
    /\ pc' = [pc EXCEPT ![t] = "push_link"]
    /\ UNCHANGED <<notStack, lastFail, head, old_head, changed, dangling,
                   alive, val, nxt, new_node, next, value, ret, ops, pushed,
                   popped, uaf, doubleFree, freed>>

\* lines 32-34: the compare_exchange_weak fails and the do-while repeats
PushCasFail(t) ==
    /\ pc[t] = "push_cas"
    /\ CasFailure(t)
    /\ pc' = [pc EXCEPT ![t] = "push_link"]
    /\ UNCHANGED <<notStack, alive, val, nxt, new_node, next, value, ret, ops,
                   pushed, popped, uaf, doubleFree, freed>>

\* lines 69 and 38: a worker_pop thread calls pop(value),
\* Node* old_head = head.load(relaxed)
PopBegin(t) ==
    /\ pc[t] = "idle"
    /\ ops < MaxOps
    /\ ops' = ops + 1
    /\ Observe(t)
    /\ pc' = [pc EXCEPT ![t] = "pop_test"]
    /\ UNCHANGED <<notStack, lastFail, head, alive, val, nxt, new_node, next,
                   value, ret, pushed, popped, uaf, doubleFree, freed>>

\* An empty pop that stores a default into the caller's value.
PopEmptyClears(t) ==
    /\ pc[t] = "pop_test"
    /\ old_head[t] = Null
    /\ pc' = [pc EXCEPT ![t] = "idle"]
    /\ ret' = [ret EXCEPT ![t] = "false"]
    /\ value' = [value EXCEPT ![t] = 0]
    /\ lastFail' = [lastFail EXCEPT ![t] = "none"]
    /\ UNCHANGED <<notStack, head, alive, val, nxt, old_head, new_node, next,
                   ops, pushed, popped, changed, dangling, uaf, doubleFree,
                   freed>>

\* lines 39 and 49: old_head == nullptr, return false
PopEmpty(t) ==
    /\ pc[t] = "pop_test"
    /\ old_head[t] = Null
    /\ pc' = [pc EXCEPT ![t] = "idle"]
    /\ ret' = [ret EXCEPT ![t] = "false"]
    /\ lastFail' = [lastFail EXCEPT ![t] = "none"]
    /\ UNCHANGED <<notStack, head, alive, val, nxt, old_head, new_node, next,
                   value, ops, pushed, popped, changed, dangling, uaf,
                   doubleFree, freed>>

\* What the read old_head->next can yield. While the Node lives it is the
\* field. Once the Node has been deleted the read is undefined behaviour:
\* if a later Node has been constructed at the address the read yields that
\* Node's field, otherwise the freed bytes, which the allocator may have
\* kept or overwritten, so any pointer.
ReadNext(t) ==
    IF old_head[t] \in alive THEN {nxt[old_head[t]]} ELSE Ptr

\* lines 39-40: old_head != nullptr, Node* next = old_head->next
PopReadNext(t) ==
    /\ pc[t] = "pop_test"
    /\ old_head[t] /= Null
    /\ \E n \in ReadNext(t) : next' = [next EXCEPT ![t] = n]
    /\ uaf' = (uaf \/ dangling[t])
    /\ pc' = [pc EXCEPT ![t] = "pop_cas"]
    /\ lastFail' = [lastFail EXCEPT ![t] = "none"]
    /\ UNCHANGED <<notStack, head, alive, val, nxt, old_head, new_node, value,
                   ret, ops, pushed, popped, changed, dangling, doubleFree,
                   freed>>

\* lines 41-43: head.compare_exchange_weak(old_head, next) succeeds
PopCasOk(t) ==
    /\ pc[t] = "pop_cas"
    /\ CasSuccess(t, next[t])
    /\ pc' = [pc EXCEPT ![t] = "pop_take"]
    /\ UNCHANGED <<notStack, lastFail, alive, val, nxt, old_head, new_node,
                   next, value, ret, ops, pushed, popped, dangling, uaf,
                   doubleFree, freed>>

\* A failed compare_exchange_weak after which the CAS is tried again with
\* the next that was read before.
PopCasFailKeepsNext(t) ==
    /\ pc[t] = "pop_cas"
    /\ CasFailure(t)
    /\ UNCHANGED <<notStack, pc, next, alive, val, nxt, new_node, value, ret,
                   ops, pushed, popped, uaf, doubleFree, freed>>

\* lines 41-43: the compare_exchange_weak fails and the while repeats
PopCasFail(t) ==
    /\ pc[t] = "pop_cas"
    /\ CasFailure(t)
    /\ pc' = [pc EXCEPT ![t] = "pop_test"]
    /\ next' = [next EXCEPT ![t] = Null]
    /\ UNCHANGED <<notStack, alive, val, nxt, new_node, value, ret, ops,
                   pushed, popped, uaf, doubleFree, freed>>

\* A read of the payload of the node below old_head.
ReadValueBelow(t) ==
    IF next[t] \in alive THEN {val[next[t]]} ELSE {val[old_head[t]]}

\* What the read old_head->value can yield (as for ReadNext).
ReadValue(t) ==
    IF old_head[t] \in alive THEN {val[old_head[t]]} ELSE Values

\* The threads whose old_head is left dangling by delete of address a: the
\* poppers that have observed a and have not returned.
LeftDangling(t, a) ==
    {u \in StackThreads \ {t} :
        pc[u] \in {"pop_test", "pop_cas", "pop_take"} /\ old_head[u] = a}

\* lines 44-46: value = old_head->value; delete old_head; return true
PopTake(t) ==
    /\ pc[t] = "pop_take"
    /\ \E v \in ReadValue(t) :
        /\ value' = [value EXCEPT ![t] = v]
        /\ popped' = [popped EXCEPT ![v] = @ + 1]
    /\ uaf' = (uaf \/ dangling[t])
    /\ doubleFree' = (doubleFree \/ old_head[t] \notin alive)
    /\ alive' = alive \ {old_head[t]}
    /\ freed' = freed \cup {old_head[t]}
    /\ dangling' = [u \in StackThreads |->
                      IF u = t THEN FALSE
                      ELSE dangling[u] \/ u \in LeftDangling(t, old_head[t])]
    /\ old_head' = [old_head EXCEPT ![t] = Null]
    /\ next' = [next EXCEPT ![t] = Null]
    /\ ret' = [ret EXCEPT ![t] = "true"]
    /\ pc' = [pc EXCEPT ![t] = "idle"]
    /\ UNCHANGED <<notStack, lastFail, head, val, nxt, new_node, ops, pushed,
                   changed>>

\* lines 60-71 and 78-81: worker_push threads call push, worker_pop threads
\* call pop
StackNext ==
    \/ \E t \in Pushers :
        \/ \E v \in Values : PushBegin(t, v)
        \/ PushLoad(t)
        \/ PushLink(t)
        \/ PushCasOk(t)
        \/ PushCasFail(t)
    \/ \E t \in Poppers :
        \/ PopBegin(t)
        \/ PopEmpty(t)
        \/ PopReadNext(t)
        \/ PopCasOk(t)
        \/ PopCasFail(t)
        \/ PopTake(t)

(***************************************************************************)
(* The counter programs. The counter is one std::atomic<int>: every        *)
(* read-modify-write acts on the latest value of its modification order.   *)
(* The values stay far below 2^31 (4 * 1'000'000 in the source), so int    *)
(* arithmetic does not wrap.                                               *)
(***************************************************************************)
\* The globals and locals before main starts the workers, counter{0}.
\* 09_cas_with_backoff.cpp lines 13-14: the failure counts start at 0; the
\* locals of its workers do not exist yet
BackoffIdle ==
    /\ backoff = [t \in Workers |-> 0]
    /\ failed = 0
    /\ streak = [t \in Workers |-> 0]
    /\ paused = [t \in Workers |-> 0]

CounterIdle ==
    /\ BackoffIdle
    /\ counter = 0
    /\ cpc = [t \in Workers |-> "call"]
    /\ old = [t \in Workers |-> 0]
    /\ iter = [t \in Workers |-> 0]
    /\ joined = FALSE
    /\ final = 0
    /\ succ = 0
    /\ attempted = [t \in Workers |-> FALSE]
    /\ moved = [t \in Workers |-> FALSE]

\* a successful compare-exchange by worker t: every other worker that is
\* inside a call now holds an observation that is out of date
MovedBy(t) == [u \in Workers |-> u /= t /\ cpc[u] /= "call"]

\* for (auto& t : threads) t.join(); then main reads counter. Every worker
\* has left its loop after n iterations.
JoinAfter(n) ==
    /\ ~joined
    /\ \A t \in Workers : iter[t] = n /\ cpc[t] = "call"
    /\ joined' = TRUE
    /\ final' = counter
    /\ UNCHANGED <<notCounter, counter, cpc, old, iter, succ, attempted, moved>>

\* ---- 02_atomic.cpp ----
\* The same increment written as a plain read and a plain write.
FetchAddTorn(t) ==
    /\ iter[t] < MaxAdds
    /\ \/ /\ cpc[t] = "call"
          /\ old' = [old EXCEPT ![t] = counter]
          /\ cpc' = [cpc EXCEPT ![t] = "write"]
          /\ UNCHANGED <<counter, iter>>
       \/ /\ cpc[t] = "write"
          /\ counter' = old[t] + 1
          /\ cpc' = [cpc EXCEPT ![t] = "call"]
          /\ iter' = [iter EXCEPT ![t] = @ + 1]
          /\ old' = old
    /\ UNCHANGED <<notCounter, joined, final, succ, attempted, moved>>

\* lines 10-11: counter.fetch_add(1, relaxed), one atomic read-modify-write
FetchAdd(t) ==
    /\ cpc[t] = "call"
    /\ iter[t] < MaxAdds
    /\ counter' = counter + 1
    /\ iter' = [iter EXCEPT ![t] = @ + 1]
    /\ UNCHANGED <<notCounter, cpc, old, joined, final, succ, attempted, moved>>

AtomicInit ==
    StackIdle /\ CounterIdle /\ HsIdle /\ AllScheduled /\ BrokenIdle

\* lines 26-36: the joins, then main streams counter.load(relaxed)
AtomicJoin == JoinAfter(MaxAdds)

AtomicNext ==
    \/ \E t \in Workers : FetchAdd(t)
    \/ AtomicJoin

SpecAtomic == AtomicInit /\ [][AtomicNext]_vars

\* ---- 05_lockfree_increment.cpp ----
\* lines 36-46, and 04_cas_bounded.cpp lines 40-50: the joins, then main
\* streams counter
Join == JoinAfter(MaxIter)

\* A compare-exchange that does not compare.
CounterCasBlind(t) == TRUE

\* compare_exchange_weak compares counter with the expected value old
CounterCasMatches(t) == counter = old[t]

\* line 13: int old = counter.load(relaxed)
IncLoad(t) ==
    /\ cpc[t] = "call"
    /\ iter[t] < MaxIter
    /\ old' = [old EXCEPT ![t] = counter]
    /\ attempted' = [attempted EXCEPT ![t] = FALSE]
    /\ moved' = [moved EXCEPT ![t] = FALSE]
    /\ cpc' = [cpc EXCEPT ![t] = "cas"]
    /\ UNCHANGED <<notCounter, counter, iter, joined, final, succ>>

\* lines 14-17: compare_exchange_weak(old, old + 1) succeeds, the call returns
IncCasOk(t) ==
    /\ cpc[t] = "cas"
    /\ CounterCasMatches(t)
    /\ counter' = old[t] + 1
    /\ succ' = succ + 1
    /\ moved' = MovedBy(t)
    /\ attempted' = [attempted EXCEPT ![t] = FALSE]
    /\ iter' = [iter EXCEPT ![t] = @ + 1]
    /\ cpc' = [cpc EXCEPT ![t] = "call"]
    /\ old' = [old EXCEPT ![t] = 0]
    /\ UNCHANGED <<notCounter, joined, final>>

\* A failed compare-exchange after which the call gives up and returns.
IncCasFailReturns(t) ==
    /\ cpc[t] = "cas"
    /\ old' = [old EXCEPT ![t] = 0]
    /\ attempted' = [attempted EXCEPT ![t] = FALSE]
    /\ moved' = [moved EXCEPT ![t] = FALSE]
    /\ iter' = [iter EXCEPT ![t] = @ + 1]
    /\ cpc' = [cpc EXCEPT ![t] = "call"]
    /\ UNCHANGED <<notCounter, counter, joined, final, succ>>

\* lines 14-17: compare_exchange_weak fails, because counter differs from old
\* or spuriously; old is replaced by the value of counter and the loop repeats
IncCasFail(t) ==
    /\ cpc[t] = "cas"
    /\ old' = [old EXCEPT ![t] = counter]
    /\ attempted' = [attempted EXCEPT ![t] = TRUE]
    /\ moved' = [moved EXCEPT ![t] = FALSE]
    /\ UNCHANGED <<notCounter, counter, cpc, iter, joined, final, succ>>

CasInit ==
    StackIdle /\ CounterIdle /\ HsIdle /\ AllScheduled /\ BrokenIdle

CasNext ==
    \/ \E t \in Workers : IncLoad(t) \/ IncCasOk(t) \/ IncCasFail(t)
    \/ Join

SpecCas == CasInit /\ [][CasNext]_vars

\* ---- 04_cas_bounded.cpp ----
\* The ceiling test written with <= instead of <.
AdmitsInclusive(o) == o <= Ceiling

\* line 14: old < 100
Admits(o) == o < Ceiling

\* line 13: int old = v.load(relaxed)
BoundedLoad(t) ==
    /\ cpc[t] = "call"
    /\ iter[t] < MaxIter
    /\ old' = [old EXCEPT ![t] = counter]
    /\ attempted' = [attempted EXCEPT ![t] = FALSE]
    /\ moved' = [moved EXCEPT ![t] = FALSE]
    /\ cpc' = [cpc EXCEPT ![t] = "test"]
    /\ UNCHANGED <<notCounter, counter, iter, joined, final, succ>>

\* line 14: old < 100 is false, the && short-circuits and the call returns
BoundedReject(t) ==
    /\ cpc[t] = "test"
    /\ ~Admits(old[t])
    /\ iter' = [iter EXCEPT ![t] = @ + 1]
    /\ cpc' = [cpc EXCEPT ![t] = "call"]
    /\ old' = [old EXCEPT ![t] = 0]
    /\ UNCHANGED <<notCounter, counter, joined, final, succ, attempted, moved>>

\* The increment written as a test followed by an unconditional add.
BoundedCheckThenAdd(t) ==
    /\ cpc[t] = "test"
    /\ Admits(old[t])
    /\ counter' = counter + 1
    /\ succ' = succ + 1
    /\ moved' = MovedBy(t)
    /\ attempted' = [attempted EXCEPT ![t] = FALSE]
    /\ iter' = [iter EXCEPT ![t] = @ + 1]
    /\ cpc' = [cpc EXCEPT ![t] = "call"]
    /\ old' = [old EXCEPT ![t] = 0]
    /\ UNCHANGED <<notCounter, joined, final>>

\* lines 14-19: old < 100 and compare_exchange_weak(old, old + 1) succeeds
BoundedCasOk(t) ==
    /\ cpc[t] = "test"
    /\ Admits(old[t])
    /\ CounterCasMatches(t)
    /\ counter' = old[t] + 1
    /\ succ' = succ + 1
    /\ moved' = MovedBy(t)
    /\ attempted' = [attempted EXCEPT ![t] = FALSE]
    /\ iter' = [iter EXCEPT ![t] = @ + 1]
    /\ cpc' = [cpc EXCEPT ![t] = "call"]
    /\ old' = [old EXCEPT ![t] = 0]
    /\ UNCHANGED <<notCounter, joined, final>>

\* A failed compare-exchange after which the call returns instead of
\* trying again.
BoundedCasFailGivesUp(t) ==
    /\ cpc[t] = "test"
    /\ Admits(old[t])
    /\ old' = [old EXCEPT ![t] = 0]
    /\ attempted' = [attempted EXCEPT ![t] = FALSE]
    /\ moved' = [moved EXCEPT ![t] = FALSE]
    /\ iter' = [iter EXCEPT ![t] = @ + 1]
    /\ cpc' = [cpc EXCEPT ![t] = "call"]
    /\ UNCHANGED <<notCounter, counter, joined, final, succ>>

\* lines 14-19: old < 100 and compare_exchange_weak fails; old is replaced
\* by the value of counter and the condition is evaluated again
BoundedCasFail(t) ==
    /\ cpc[t] = "test"
    /\ Admits(old[t])
    /\ old' = [old EXCEPT ![t] = counter]
    /\ attempted' = [attempted EXCEPT ![t] = TRUE]
    /\ moved' = [moved EXCEPT ![t] = FALSE]
    /\ UNCHANGED <<notCounter, counter, cpc, iter, joined, final, succ>>

\* The counter when the modelled calls begin: 0 as in the program, or a
\* value the program reaches after Ceiling - MaxGap or more increments, with
\* every worker between two calls and MaxIter iterations left.
BoundedStart == {0} \cup ((Ceiling - MaxGap)..Ceiling)

\* The globals and locals of 04_cas_bounded.cpp between two calls.
BoundedIdle ==
    /\ BackoffIdle
    /\ counter \in BoundedStart
    /\ cpc = [t \in Workers |-> "call"]
    /\ old = [t \in Workers |-> 0]
    /\ iter = [t \in Workers |-> 0]
    /\ joined = FALSE
    /\ final = 0
    /\ succ = 0
    /\ attempted = [t \in Workers |-> FALSE]
    /\ moved = [t \in Workers |-> FALSE]

BoundedInit ==
    StackIdle /\ HsIdle /\ BoundedIdle /\ AllScheduled /\ BrokenIdle

BoundedNext ==
    \/ \E t \in Workers :
        \/ BoundedLoad(t)
        \/ BoundedReject(t)
        \/ BoundedCasOk(t)
        \/ BoundedCasFail(t)
    \/ Join

SpecBounded == BoundedInit /\ [][BoundedNext]_vars

(***************************************************************************)
(* 07_producer_consumer.cpp. Two locations, the plain int data and the     *)
(* atomic ready, under the C++ memory model in its view form: the writes   *)
(* to a location are kept in modification order, a thread may read any     *)
(* write that is not older than the one its view names, a release store    *)
(* publishes the writer's view and an acquire load that reads it joins     *)
(* that view. Starting a thread hands it the starter's view, joining it    *)
(* hands its view back. A plain read that has more than one write to       *)
(* choose from is a data race; it yields any of them.                      *)
(***************************************************************************)
Max(a, b) == IF a >= b THEN a ELSE b

JoinViews(v, w) == [l \in Locs |-> Max(v[l], w[l])]

\* A load that returns the write the thread knows already and never a
\* later one.
ReadableKnown(t, loc) == {view[t][loc]}

\* the writes to loc thread t may read
Readable(t, loc) == view[t][loc]..Len(mem[loc])

\* An acquire load that fails to synchronise with the store it reads.
AcquireViewNoSync(t, loc, i) == [view[t] EXCEPT ![loc] = i]

\* the view of t after a load(memory_order_acquire) that reads write i
AcquireView(t, loc, i) ==
    JoinViews([view[t] EXCEPT ![loc] = i], mem[loc][i].rel)

\* A relaxed load that synchronises like an acquire load.
RelaxedViewSync(t, loc, i) ==
    JoinViews([view[t] EXCEPT ![loc] = i], mem[loc][i].rel)

\* the view of t after a load(memory_order_relaxed) that reads write i
RelaxedView(t, loc, i) == [view[t] EXCEPT ![loc] = i]

\* a plain write, data = v
WritePlain(t, loc, v) ==
    LET i == Len(mem[loc]) + 1 IN
    /\ mem' = [mem EXCEPT ![loc] =
                 Append(@, [val |-> v, rel |-> [Bottom EXCEPT ![loc] = i]])]
    /\ view' = [view EXCEPT ![t][loc] = i]

\* ready.store(v, memory_order_release), or the seq_cst store of main
StoreRelease(t, loc, v) ==
    LET i == Len(mem[loc]) + 1
        w == [view[t] EXCEPT ![loc] = i]
    IN
    /\ mem' = [mem EXCEPT ![loc] = Append(@, [val |-> v, rel |-> w])]
    /\ view' = [view EXCEPT ![t] = w]

Goto(t, p) == hpc' = [hpc EXCEPT ![t] = p]

\* lines 47 and 56: data = 0
MainResetData ==
    /\ hpc["main"] = "data"
    /\ WritePlain("main", "data", 0)
    /\ Goto("main", "ready")
    /\ UNCHANGED <<notHs, prog, spin_count, phase, rdy, tmp, out>>

\* lines 48 and 57: ready.store(false)
MainResetReady ==
    /\ hpc["main"] = "ready"
    /\ StoreRelease("main", "ready", FALSE)
    /\ Goto("main", "spawn_p")
    /\ UNCHANGED <<notHs, prog, spin_count, phase, rdy, tmp, out>>

\* lines 50 and 59: std::thread t1(producer)
MainSpawnProducer ==
    /\ hpc["main"] = "spawn_p"
    /\ hpc' = [hpc EXCEPT !["main"] = "spawn_c", !["producer"] = "sleep"]
    /\ view' = [view EXCEPT !["producer"] = view["main"]]
    /\ UNCHANGED <<notHs, prog, spin_count, mem, phase, rdy, tmp, out>>

\* lines 51 and 60: std::thread t2(consumer_correct), t4(consumer_broken)
MainSpawnConsumer ==
    /\ hpc["main"] = "spawn_c"
    /\ hpc' = [hpc EXCEPT !["main"] = "join_p", !["consumer"] = "load"]
    /\ view' = [view EXCEPT !["consumer"] = view["main"]]
    /\ UNCHANGED <<notHs, prog, spin_count, mem, phase, rdy, tmp, out>>

\* lines 52 and 61: t1.join()
MainJoinProducer ==
    /\ hpc["main"] = "join_p"
    /\ hpc["producer"] = "done"
    /\ hpc' = [hpc EXCEPT !["main"] = "join_c", !["producer"] = "off"]
    /\ view' = [view EXCEPT !["main"] = JoinViews(@, view["producer"])]
    /\ UNCHANGED <<notHs, prog, spin_count, mem, phase, rdy, tmp, out>>

\* lines 53 and 62: t2.join(); after Test 1 main goes on to Test 2
MainJoinConsumer ==
    /\ hpc["main"] = "join_c"
    /\ hpc["consumer"] = "done"
    /\ hpc' = [hpc EXCEPT !["main"] = IF phase = 1 THEN "data" ELSE "done",
                          !["consumer"] = "off"]
    /\ view' = [view EXCEPT !["main"] = JoinViews(@, view["consumer"])]
    /\ phase' = 2
    /\ UNCHANGED <<notHs, prog, spin_count, mem, rdy, tmp, out>>

\* line 15: sleep_for(100ms) is entered
ProducerSleep ==
    /\ hpc["producer"] = "sleep"
    /\ Goto("producer", "asleep")
    /\ UNCHANGED <<notHs, prog, spin_count, mem, view, phase, rdy, tmp, out>>

\* line 15: sleep_for(100ms) returns
ProducerWake ==
    /\ hpc["producer"] = "asleep"
    /\ Goto("producer", "data")
    /\ UNCHANGED <<notHs, prog, spin_count, mem, view, phase, rdy, tmp, out>>

\* line 16: data = 42
ProducerWriteData ==
    /\ hpc["producer"] = "data"
    /\ WritePlain("producer", "data", 42)
    /\ Goto("producer", "store")
    /\ UNCHANGED <<notHs, prog, spin_count, phase, rdy, tmp, out>>

\* line 17: ready.store(true, memory_order_release)
ProducerSignal ==
    /\ hpc["producer"] = "store"
    /\ StoreRelease("producer", "ready", TRUE)
    /\ Goto("producer", "done")
    /\ UNCHANGED <<notHs, prog, spin_count, phase, rdy, tmp, out>>

\* line 23: ready.load(memory_order_acquire)
ConsumerCorrectLoad ==
    /\ phase = 1
    /\ hpc["consumer"] = "load"
    /\ \E i \in Readable("consumer", "ready") :
        /\ view' = [view EXCEPT !["consumer"] = AcquireView("consumer", "ready", i)]
        /\ rdy' = mem["ready"][i].val
    /\ Goto("consumer", "test")
    /\ UNCHANGED <<notHs, prog, spin_count, mem, phase, tmp, out>>

\* lines 23, 34: while (!ready.load(...)), the loop ends when the load
\* returned true
ConsumerLeaveLoop ==
    /\ hpc["consumer"] = "test"
    /\ rdy
    /\ Goto("consumer", "read")
    /\ UNCHANGED <<notHs, prog, spin_count, mem, view, phase, rdy, tmp, out>>

\* lines 23-26, 34-36: the load returned false, std::this_thread::yield()
ConsumerYield ==
    /\ hpc["consumer"] = "test"
    /\ ~rdy
    /\ Goto("consumer", "yield")
    /\ UNCHANGED <<notHs, prog, spin_count, mem, view, phase, rdy, tmp, out>>

\* lines 25, 35: yield() returns and the condition is evaluated again
ConsumerResume ==
    /\ hpc["consumer"] = "yield"
    /\ Goto("consumer", "load")
    /\ UNCHANGED <<notHs, prog, spin_count, mem, view, phase, rdy, tmp, out>>

\* line 28: the operand data of the output expression is read
ConsumerCorrectRead ==
    /\ phase = 1
    /\ hpc["consumer"] = "read"
    /\ \E i \in Readable("consumer", "data") : tmp' = mem["data"][i].val
    /\ Goto("consumer", "print")
    /\ UNCHANGED <<notHs, prog, spin_count, mem, view, phase, rdy, out>>

\* line 28: std::cout << "Consumer (acquire): data = " << data
ConsumerCorrectPrint ==
    /\ phase = 1
    /\ hpc["consumer"] = "print"
    /\ out' = Append(out, [who |-> "acquire", data |-> tmp])
    /\ Goto("consumer", "assert")
    /\ UNCHANGED <<notHs, prog, spin_count, mem, view, phase, rdy, tmp>>

\* line 29: assert(data == 42) reads data again; a failed assert aborts
ConsumerCorrectAssert ==
    /\ phase = 1
    /\ hpc["consumer"] = "assert"
    /\ \E i \in Readable("consumer", "data") :
        /\ tmp' = mem["data"][i].val
        /\ Goto("consumer", IF mem["data"][i].val = 42 THEN "done" ELSE "aborted")
    /\ UNCHANGED <<notHs, prog, spin_count, mem, view, phase, rdy, out>>

\* line 34: ready.load(memory_order_relaxed)
ConsumerBrokenLoad ==
    /\ phase = 2
    /\ hpc["consumer"] = "load"
    /\ \E i \in Readable("consumer", "ready") :
        /\ view' = [view EXCEPT !["consumer"] = RelaxedView("consumer", "ready", i)]
        /\ rdy' = mem["ready"][i].val
    /\ Goto("consumer", "test")
    /\ UNCHANGED <<notHs, prog, spin_count, mem, phase, tmp, out>>

\* line 38: the operand data of the output expression is read
ConsumerBrokenRead ==
    /\ phase = 2
    /\ hpc["consumer"] = "read"
    /\ \E i \in Readable("consumer", "data") : tmp' = mem["data"][i].val
    /\ Goto("consumer", "print")
    /\ UNCHANGED <<notHs, prog, spin_count, mem, view, phase, rdy, out>>

\* line 38: std::cout << "Consumer (relaxed): data = " << data
ConsumerBrokenPrint ==
    /\ phase = 2
    /\ hpc["consumer"] = "print"
    /\ out' = Append(out, [who |-> "relaxed", data |-> tmp])
    /\ Goto("consumer", "done")
    /\ UNCHANGED <<notHs, prog, spin_count, mem, view, phase, rdy, tmp>>

(***************************************************************************)
(* 08_polling_vs_lockfree.cpp, Demonstration 1: the same handshake on      *)
(* ready_flag (the location "ready"), without data.                        *)
(***************************************************************************)
\* std::atomic<bool> ready_flag{false}; main is about to run Demonstration 1
PollIdle ==
    /\ prog = "polling"
    /\ spin_count = 0
    /\ mem = [l \in Locs |->
                <<[val |-> IF l = "data" THEN 0 ELSE FALSE, rel |-> Bottom]>>]
    /\ view = [t \in HsThreads |-> Bottom]
    /\ hpc = [t \in HsThreads |-> IF t = "main" THEN "poll_reset" ELSE "off"]
    /\ phase = 1
    /\ rdy = FALSE
    /\ tmp = 0
    /\ out = <<>>

\* line 53: ready_flag.store(false)
PollMainReset ==
    /\ hpc["main"] = "poll_reset"
    /\ StoreRelease("main", "ready", FALSE)
    /\ Goto("main", "poll_spawn_p")
    /\ UNCHANGED <<notHs, prog, spin_count, phase, rdy, tmp, out>>

\* line 56: std::thread t1(polling_producer)
PollMainSpawnProducer ==
    /\ hpc["main"] = "poll_spawn_p"
    /\ hpc' = [hpc EXCEPT !["main"] = "poll_spawn_c", !["producer"] = "poll_sleep"]
    /\ view' = [view EXCEPT !["producer"] = view["main"]]
    /\ UNCHANGED <<notHs, prog, spin_count, mem, phase, rdy, tmp, out>>

\* line 57: std::thread t2(polling_consumer)
PollMainSpawnConsumer ==
    /\ hpc["main"] = "poll_spawn_c"
    /\ hpc' = [hpc EXCEPT !["main"] = "poll_join_p", !["consumer"] = "poll_load"]
    /\ view' = [view EXCEPT !["consumer"] = view["main"]]
    /\ UNCHANGED <<notHs, prog, spin_count, mem, phase, rdy, tmp, out>>

\* line 58: t1.join()
PollMainJoinProducer ==
    /\ hpc["main"] = "poll_join_p"
    /\ hpc["producer"] = "poll_done"
    /\ hpc' = [hpc EXCEPT !["main"] = "poll_join_c", !["producer"] = "off"]
    /\ view' = [view EXCEPT !["main"] = JoinViews(@, view["producer"])]
    /\ UNCHANGED <<notHs, prog, spin_count, mem, phase, rdy, tmp, out>>

\* line 59: t2.join()
PollMainJoinConsumer ==
    /\ hpc["main"] = "poll_join_c"
    /\ hpc["consumer"] = "poll_done"
    /\ hpc' = [hpc EXCEPT !["main"] = "poll_done", !["consumer"] = "off"]
    /\ view' = [view EXCEPT !["main"] = JoinViews(@, view["consumer"])]
    /\ UNCHANGED <<notHs, prog, spin_count, mem, phase, rdy, tmp, out>>

\* line 24: sleep_for(10ms) is entered
PollingProducerSleep ==
    /\ hpc["producer"] = "poll_sleep"
    /\ Goto("producer", "poll_asleep")
    /\ UNCHANGED <<notHs, prog, spin_count, mem, view, phase, rdy, tmp, out>>

\* line 24: sleep_for(10ms) returns
PollingProducerWake ==
    /\ hpc["producer"] = "poll_asleep"
    /\ Goto("producer", "poll_store")
    /\ UNCHANGED <<notHs, prog, spin_count, mem, view, phase, rdy, tmp, out>>

\* line 25: ready_flag.store(true, memory_order_release)
PollingProducerSignal ==
    /\ hpc["producer"] = "poll_store"
    /\ StoreRelease("producer", "ready", TRUE)
    /\ Goto("producer", "poll_done")
    /\ UNCHANGED <<notHs, prog, spin_count, phase, rdy, tmp, out>>

\* line 14: ready_flag.load(memory_order_acquire)
PollingConsumerLoad ==
    /\ hpc["consumer"] = "poll_load"
    /\ \E i \in Readable("consumer", "ready") :
        /\ view' = [view EXCEPT !["consumer"] = AcquireView("consumer", "ready", i)]
        /\ rdy' = mem["ready"][i].val
    /\ Goto("consumer", "poll_test")
    /\ UNCHANGED <<notHs, prog, spin_count, mem, phase, tmp, out>>

\* lines 14-18: the load returned false: ++spin_count; yield()
PollingConsumerSpin ==
    /\ hpc["consumer"] = "poll_test"
    /\ ~rdy
    /\ spin_count < MaxSpin
    /\ spin_count' = spin_count + 1
    /\ Goto("consumer", "poll_load")
    /\ UNCHANGED <<notHs, prog, mem, view, phase, rdy, tmp, out>>

\* lines 14 and 20: the load returned true: the loop ends and spin_count is
\* streamed
PollingConsumerPrint ==
    /\ hpc["consumer"] = "poll_test"
    /\ rdy
    /\ out' = Append(out, [who |-> "polling", data |-> spin_count])
    /\ Goto("consumer", "poll_done")
    /\ UNCHANGED <<notHs, prog, spin_count, mem, view, phase, rdy, tmp>>

HandshakeInit ==
    StackIdle /\ CounterIdle /\ (HsIdle \/ PollIdle)
    /\ AllScheduled /\ BrokenIdle

HandshakeNext ==
    \/ MainResetData
    \/ MainResetReady
    \/ MainSpawnProducer
    \/ MainSpawnConsumer
    \/ MainJoinProducer
    \/ MainJoinConsumer
    \/ ProducerSleep
    \/ ProducerWake
    \/ ProducerWriteData
    \/ ProducerSignal
    \/ ConsumerCorrectLoad
    \/ ConsumerLeaveLoop
    \/ ConsumerYield
    \/ ConsumerResume
    \/ ConsumerCorrectRead
    \/ ConsumerCorrectPrint
    \/ ConsumerCorrectAssert
    \/ ConsumerBrokenLoad
    \/ ConsumerBrokenRead
    \/ ConsumerBrokenPrint
    \/ PollMainReset
    \/ PollMainSpawnProducer
    \/ PollMainSpawnConsumer
    \/ PollMainJoinProducer
    \/ PollMainJoinConsumer
    \/ PollingProducerSleep
    \/ PollingProducerWake
    \/ PollingProducerSignal
    \/ PollingConsumerLoad
    \/ PollingConsumerSpin
    \/ PollingConsumerPrint

SpecHandshake == HandshakeInit /\ [][HandshakeNext]_vars

StackInit ==
    StackIdle /\ CounterIdle /\ HsIdle /\ AllScheduled /\ BrokenIdle

SpecStack == StackInit /\ [][StackNext]_vars

(***************************************************************************)
(* 09_cas_with_backoff.cpp. main runs two tests one after the other, each  *)
(* with its own counter, its own failure count and NUM_THREADS threads:    *)
(* Test 1 runs worker_no_backoff, Test 2 runs worker_with_backoff. prog    *)
(* names the worker of the test that runs; counter is that test's counter. *)
(***************************************************************************)
\* line 52: std::min(backoff * 2, 64)
BackoffCap == 64

\* std::min
Min(a, b) == IF a < b THEN a ELSE b

\* A doubling without the cap.
NextBackoffUncapped(b) == b * 2

\* line 52: backoff = std::min(backoff * 2, 64)
NextBackoff(b) == Min(b * 2, BackoffCap)

\* line 22: int old = counter_no_backoff.load(relaxed)
NoBackoffLoad(t) ==
    /\ prog = "worker_no_backoff"
    /\ cpc[t] = "call"
    /\ iter[t] < MaxRounds
    /\ old' = [old EXCEPT ![t] = counter]
    /\ streak' = [streak EXCEPT ![t] = 0]
    /\ cpc' = [cpc EXCEPT ![t] = "cas"]
    /\ UNCHANGED <<notBackoff, counter, iter, joined, final, succ, attempted,
                   moved, backoff, failed, paused>>

\* An iteration that keeps the backoff of the iteration before.
BackoffLoadKeeps(t, rounds) ==
    /\ prog = "worker_with_backoff"
    /\ cpc[t] = "call"
    /\ iter[t] < rounds
    /\ old' = [old EXCEPT ![t] = counter]
    /\ backoff' = [backoff EXCEPT ![t] = IF iter[t] = 0 THEN 1 ELSE @]
    /\ streak' = [streak EXCEPT ![t] = 0]
    /\ paused' = [paused EXCEPT ![t] = 0]
    /\ cpc' = [cpc EXCEPT ![t] = "cas"]
    /\ UNCHANGED <<notBackoff, counter, iter, joined, final, succ, attempted,
                   moved, failed>>

\* lines 35-37: i < ITERATIONS (rounds of them here);
\* int old = counter_with_backoff.load(relaxed); int backoff = 1
BackoffLoadWithin(t, rounds) ==
    /\ prog = "worker_with_backoff"
    /\ cpc[t] = "call"
    /\ iter[t] < rounds
    /\ old' = [old EXCEPT ![t] = counter]
    /\ backoff' = [backoff EXCEPT ![t] = 1]
    /\ streak' = [streak EXCEPT ![t] = 0]
    /\ paused' = [paused EXCEPT ![t] = 0]
    /\ cpc' = [cpc EXCEPT ![t] = "cas"]
    /\ UNCHANGED <<notBackoff, counter, iter, joined, final, succ, attempted,
                   moved, failed>>

\* lines 36-37: int old = counter_with_backoff.load(relaxed);
\* int backoff = 1
BackoffLoad(t) == BackoffLoadWithin(t, MaxRounds)

\* lines 23-26 and 38-41: compare_exchange_weak(old, old + 1) succeeds, the
\* while loop and the iteration end
BackoffCasOk(t) ==
    /\ cpc[t] = "cas"
    /\ CounterCasMatches(t)
    /\ counter' = old[t] + 1
    /\ succ' = succ + 1
    /\ iter' = [iter EXCEPT ![t] = @ + 1]
    /\ cpc' = [cpc EXCEPT ![t] = "call"]
    /\ old' = [old EXCEPT ![t] = 0]
    /\ UNCHANGED <<notBackoff, joined, final, attempted, moved, bkVars>>

\* lines 23-26: compare_exchange_weak fails (counter differs from old, or
\* spuriously) and replaces old by the value of counter
NoBackoffCasFail(t) ==
    /\ prog = "worker_no_backoff"
    /\ cpc[t] = "cas"
    /\ failed < MaxFails
    /\ old' = [old EXCEPT ![t] = counter]
    /\ streak' = [streak EXCEPT ![t] = @ + 1]
    /\ cpc' = [cpc EXCEPT ![t] = "count"]
    /\ UNCHANGED <<notBackoff, counter, iter, joined, final, succ, attempted,
                   moved, backoff, failed, paused>>

\* lines 38-52: compare_exchange_weak fails and replaces old by the value
\* of counter; the for loop executes backoff pause instructions; then
\* backoff = std::min(backoff * 2, 64)
BackoffCasFail(t) ==
    /\ prog = "worker_with_backoff"
    /\ cpc[t] = "cas"
    /\ failed < MaxFails
    /\ old' = [old EXCEPT ![t] = counter]
    /\ paused' = [paused EXCEPT ![t] = backoff[t]]
    /\ backoff' = [backoff EXCEPT ![t] = NextBackoff(backoff[t])]
    /\ streak' = [streak EXCEPT ![t] = @ + 1]
    /\ cpc' = [cpc EXCEPT ![t] = "count"]
    /\ UNCHANGED <<notBackoff, counter, iter, joined, final, succ, attempted,
                   moved, failed>>

\* A failure count that is added to the counter of the test.
CountFailureOnCounter(t) ==
    /\ cpc[t] = "count"
    /\ counter' = counter + 1
    /\ cpc' = [cpc EXCEPT ![t] = "cas"]
    /\ UNCHANGED <<notBackoff, failed, old, iter, joined, final, succ,
                   attempted, moved, backoff, streak, paused>>

\* lines 28 and 53: failed_cas_count.fetch_add(1, relaxed), then the while
\* loop tries the compare-exchange again
CountFailure(t) ==
    /\ cpc[t] = "count"
    /\ failed' = failed + 1
    /\ cpc' = [cpc EXCEPT ![t] = "cas"]
    /\ UNCHANGED <<notBackoff, counter, old, iter, joined, final, succ,
                   attempted, moved, backoff, streak, paused>>

\* lines 69-70 and 85-86: counter.store(0); failed_cas_count.store(0)
BackoffInit ==
    /\ AllScheduled
    /\ BrokenIdle
    /\ StackIdle
    /\ CounterIdle
    /\ \/ Running("worker_no_backoff")
       \/ Running("worker_with_backoff")

\* lines 77-79 and 93-95, then 105 and 109: the joins, then main streams
\* the counter
BackoffJoin == JoinAfter(MaxRounds)

BackoffNext ==
    \/ \E t \in Workers :
         \/ NoBackoffLoad(t)
         \/ NoBackoffCasFail(t)
         \/ BackoffLoad(t)
         \/ BackoffCasFail(t)
         \/ BackoffCasOk(t)
         \/ CountFailure(t)
    \/ BackoffJoin

SpecBackoff == BackoffInit /\ [][BackoffNext]_vars

\* ---- worker_with_backoff over more than one iteration ----
\* number of loop iterations of one worker_with_backoff
MaxResetRounds == 2
\* number of failed compare-exchanges that are followed by another one
MaxResetFails == 2

\* line 85-86: Test 2 is about to start its threads
BackoffResetInit ==
    /\ AllScheduled
    /\ BrokenIdle
    /\ StackIdle
    /\ CounterIdle
    /\ Running("worker_with_backoff")

\* lines 93-95 and 109: the joins, then main streams the counter
BackoffResetJoin == JoinAfter(MaxResetRounds)

\* lines 34-56 and 90-95: the threads of Test 2 run worker_with_backoff
BackoffResetNext ==
    \/ \E t \in Workers :
         \/ BackoffLoadWithin(t, MaxResetRounds)
         \/ failed < MaxResetFails /\ BackoffCasFail(t)
         \/ BackoffCasOk(t)
         \/ CountFailure(t)
    \/ BackoffResetJoin

SpecBackoffReset == BackoffResetInit /\ [][BackoffResetNext]_vars

(***************************************************************************)
(* One thread alone calls push and pop on a LockFreeStack; like            *)
(* worker_push (line 62: stack.push(i)) it pushes 1, 2, 3, ...             *)
(***************************************************************************)
Caller == 1

SeqValues == 1..MaxOps

SeqInit ==
    StackIdleOver(SeqValues) /\ CounterIdle /\ HsIdle
    /\ AllScheduled /\ BrokenIdle

\* the number of calls of push so far
PushCalls ==
    LET RECURSIVE Sum(_)
        Sum(n) == IF n = 0 THEN 0 ELSE pushed[n] + Sum(n - 1)
    IN  Sum(MaxOps)

SeqNext ==
    \/ PushBegin(Caller, PushCalls + 1)
    \/ PushLoad(Caller)
    \/ PushLink(Caller)
    \/ PushCasOk(Caller)
    \/ PushCasFail(Caller)
    \/ PopBegin(Caller)
    \/ PopEmpty(Caller)
    \/ PopReadNext(Caller)
    \/ PopCasOk(Caller)
    \/ PopCasFail(Caller)
    \/ PopTake(Caller)

SpecSequential == SeqInit /\ [][SeqNext]_vars

\* a step of a thread that runs push
PushStep(t) == PushLoad(t) \/ PushLink(t) \/ PushCasOk(t) \/ PushCasFail(t)

\* Every thread is a std::thread (lines 78-79) that the scheduler keeps
\* running, and a compare_exchange_weak whose expected value equals head
\* again and again does not fail every time: its failures are then only the
\* spurious ones, which the hardware does not repeat for ever.
StackFairness ==
    \A t \in Pushers : WF_vars(PushStep(t)) /\ SF_vars(PushCasOk(t))

\* the calls of StackNext, MaxFairOps of them
StackFairNext ==
    \/ \E t \in Pushers :
         \/ \E v \in Values : ops < MaxFairOps /\ PushBegin(t, v)
         \/ PushLoad(t)
         \/ PushLink(t)
         \/ PushCasOk(t)
         \/ PushCasFail(t)
    \/ \E t \in Poppers :
         \/ ops < MaxFairOps /\ PopBegin(t)
         \/ PopEmpty(t)
         \/ PopReadNext(t)
         \/ PopCasOk(t)
         \/ PopCasFail(t)
         \/ PopTake(t)

SpecStackFair == StackInit /\ [][StackFairNext]_vars /\ StackFairness

(***************************************************************************)
(* 06_lockfree_stack.cpp with the memory orders of its accesses: head and  *)
(* the two fields of every Node are locations of mem, every thread has its *)
(* view of them. head is read by load(relaxed) and by compare_exchange_weak*)
(* (release in push, acquire in pop, relaxed on failure); the fields are   *)
(* plain. Every new returns a fresh address here, so that a link or a      *)
(* payload a thread reads was written for the Node it belongs to.          *)
(***************************************************************************)
HeadLoc == <<"head", Null>>

NextLoc(a) == <<"next", a>>

ValueLoc(a) == <<"value", a>>

StackLocs == {HeadLoc} \cup {NextLoc(a) : a \in Addr}
                       \cup {ValueLoc(a) : a \in Addr}

\* the view of a thread that is ordered after the static initialisation only
StackBottom == [l \in StackLocs |-> 1]

JoinStackViews(v, w) == [l \in StackLocs |-> Max(v[l], w[l])]

\* the latest write to loc in its modification order
Latest(loc) == mem[loc][Len(mem[loc])]

\* mem after thread t's write of v to loc, released with view rel
Written(m, loc, v, rel) ==
    [m EXCEPT ![loc] = Append(@, [val |-> v, rel |-> rel])]

\* head{nullptr}; the bytes of the heap before any new
PublishInit ==
    /\ AllScheduled
    /\ BrokenIdle
    /\ StackIdle
    /\ CounterIdle
    /\ prog = "06_lockfree_stack"
    /\ mem = [l \in StackLocs |-> <<[val |-> 0, rel |-> StackBottom]>>]
    /\ view = [t \in StackThreads |-> StackBottom]
    /\ hpc = [t \in HsThreads |-> "off"]
    /\ spin_count = 0
    /\ phase = 1
    /\ rdy = FALSE
    /\ tmp = 0
    /\ out = <<>>

\* what the actions on mem and view leave unchanged
notPublish ==
    <<counterVars, bkVars, schedVars, brokenVars, prog, hpc, spin_count,
      phase, rdy, tmp, out, head, val, nxt, changed, dangling, lastFail, uaf,
      doubleFree>>

\* lines 62 and 22: push(v), Node* new_node = new Node(value); the
\* constructor (line 13) writes value and next = nullptr
PubPushBegin(t, v) ==
    /\ pc[t] = "idle"
    /\ ops < MaxPubOps
    /\ \E a \in Addr \ (alive \cup freed) :
        LET iv == Len(mem[ValueLoc(a)]) + 1
            in == Len(mem[NextLoc(a)]) + 1
        IN
        /\ alive' = alive \cup {a}
        /\ new_node' = [new_node EXCEPT ![t] = a]
        /\ mem' = Written(Written(mem, ValueLoc(a), v, StackBottom),
                          NextLoc(a), Null, StackBottom)
        /\ view' = [view EXCEPT ![t][ValueLoc(a)] = iv, ![t][NextLoc(a)] = in]
    /\ ops' = ops + 1
    /\ pushed' = [pushed EXCEPT ![v] = @ + 1]
    /\ pc' = [pc EXCEPT ![t] = "push_load"]
    /\ UNCHANGED <<notPublish, old_head, next, value, ret, popped, freed>>

\* head.load(relaxed), and the reload of old_head by a failed
\* compare_exchange_weak (failure order relaxed): the thread reads a write
\* to head that its view allows, and nothing else of its view moves
LoadHeadRelaxed(t) ==
    \E i \in Readable(t, HeadLoc) :
        /\ old_head' = [old_head EXCEPT ![t] = mem[HeadLoc][i].val]
        /\ view' = [view EXCEPT ![t] = RelaxedView(t, HeadLoc, i)]

\* line 23: Node* old_head = head.load(relaxed)
PubPushLoad(t) ==
    /\ pc[t] = "push_load"
    /\ LoadHeadRelaxed(t)
    /\ pc' = [pc EXCEPT ![t] = "push_link"]
    /\ UNCHANGED <<notPublish, mem, alive, freed, new_node, next, value, ret,
                   ops, pushed, popped>>

\* line 25: new_node->next = old_head, a plain write. The Node is not
\* published yet and the pusher is its only writer; a write of the value the
\* field holds already is not told from the write before it.
PubPushLink(t) ==
    /\ pc[t] = "push_link"
    /\ IF Latest(NextLoc(new_node[t])).val = old_head[t]
       THEN UNCHANGED <<mem, view>>
       ELSE /\ mem' = Written(mem, NextLoc(new_node[t]), old_head[t],
                              StackBottom)
            /\ view' = [view EXCEPT ![t][NextLoc(new_node[t])] =
                                      Len(mem[NextLoc(new_node[t])]) + 1]
    /\ pc' = [pc EXCEPT ![t] = "push_cas"]
    /\ UNCHANGED <<notPublish, alive, freed, old_head, new_node, next, value,
                   ret, ops, pushed, popped>>

\* what the release compare_exchange_weak of push releases: the view of the
\* pusher, and as a read-modify-write it continues the release sequence of
\* the write it replaces
ReleasedByPush(t) ==
    JoinStackViews([view[t] EXCEPT ![HeadLoc] = Len(mem[HeadLoc]) + 1],
                   Latest(HeadLoc).rel)

\* lines 32-34: compare_exchange_weak(old_head, new_node, release, relaxed)
\* succeeds: a read-modify-write of the latest write to head
PubPushCasOk(t) ==
    /\ pc[t] = "push_cas"
    /\ Latest(HeadLoc).val = old_head[t]
    /\ mem' = Written(mem, HeadLoc, new_node[t], ReleasedByPush(t))
    /\ view' = [view EXCEPT ![t][HeadLoc] = Len(mem[HeadLoc]) + 1]
    /\ pc' = [pc EXCEPT ![t] = "idle"]
    /\ old_head' = [old_head EXCEPT ![t] = Null]
    /\ new_node' = [new_node EXCEPT ![t] = Null]
    /\ UNCHANGED <<notPublish, alive, freed, next, value, ret, ops, pushed,
                   popped>>

\* lines 32-34: the compare_exchange_weak fails and the do-while repeats
PubPushCasFail(t) ==
    /\ pc[t] = "push_cas"
    /\ LoadHeadRelaxed(t)
    /\ pc' = [pc EXCEPT ![t] = "push_link"]
    /\ UNCHANGED <<notPublish, mem, alive, freed, new_node, next, value, ret,
                   ops, pushed, popped>>

\* lines 69 and 38: pop(value), Node* old_head = head.load(relaxed)
PubPopBegin(t) ==
    /\ pc[t] = "idle"
    /\ ops < MaxPubOps
    /\ ops' = ops + 1
    /\ LoadHeadRelaxed(t)
    /\ pc' = [pc EXCEPT ![t] = "pop_test"]
    /\ UNCHANGED <<notPublish, mem, alive, freed, new_node, next, value, ret,
                   pushed, popped>>

\* lines 39 and 49: old_head == nullptr, return false
PubPopEmpty(t) ==
    /\ pc[t] = "pop_test"
    /\ old_head[t] = Null
    /\ pc' = [pc EXCEPT ![t] = "idle"]
    /\ ret' = [ret EXCEPT ![t] = "false"]
    /\ UNCHANGED <<notPublish, mem, view, alive, freed, old_head, new_node,
                   next, value, ops, pushed, popped>>

\* lines 39-40: Node* next = old_head->next, a plain read. Nothing orders
\* it after the pusher's write of line 25 (the load of head was relaxed),
\* so it races with that write and may yield any write its view allows.
PubPopReadNext(t) ==
    /\ pc[t] = "pop_test"
    /\ old_head[t] /= Null
    /\ \E i \in Readable(t, NextLoc(old_head[t])) :
        /\ next' = [next EXCEPT ![t] = mem[NextLoc(old_head[t])][i].val]
        /\ view' = [view EXCEPT ![t][NextLoc(old_head[t])] = i]
    /\ pc' = [pc EXCEPT ![t] = "pop_cas"]
    /\ UNCHANGED <<notPublish, mem, alive, freed, old_head, new_node, value,
                   ret, ops, pushed, popped>>

\* the view of the popper after its acquire compare_exchange_weak: it
\* synchronises with the release that wrote the value it replaces
AcquiredByPop(t) ==
    JoinStackViews([view[t] EXCEPT ![HeadLoc] = Len(mem[HeadLoc]) + 1],
                   Latest(HeadLoc).rel)

\* lines 41-43: compare_exchange_weak(old_head, next, acquire, relaxed)
\* succeeds; its write continues the release sequence it read from
PubPopCasOk(t) ==
    /\ pc[t] = "pop_cas"
    /\ Latest(HeadLoc).val = old_head[t]
    /\ mem' = Written(mem, HeadLoc, next[t], Latest(HeadLoc).rel)
    /\ view' = [view EXCEPT ![t] = AcquiredByPop(t)]
    /\ pc' = [pc EXCEPT ![t] = "pop_take"]
    /\ UNCHANGED <<notPublish, alive, freed, old_head, new_node, next, value,
                   ret, ops, pushed, popped>>

\* lines 41-43: the compare_exchange_weak fails and the while repeats
PubPopCasFail(t) ==
    /\ pc[t] = "pop_cas"
    /\ LoadHeadRelaxed(t)
    /\ pc' = [pc EXCEPT ![t] = "pop_test"]
    /\ next' = [next EXCEPT ![t] = Null]
    /\ UNCHANGED <<notPublish, mem, alive, freed, new_node, value, ret, ops,
                   pushed, popped>>

\* lines 44-46: value = old_head->value, a plain read; delete old_head;
\* return true
PubPopTake(t) ==
    /\ pc[t] = "pop_take"
    /\ \E i \in Readable(t, ValueLoc(old_head[t])) :
        /\ value' = [value EXCEPT ![t] = mem[ValueLoc(old_head[t])][i].val]
        /\ view' = [view EXCEPT ![t][ValueLoc(old_head[t])] = i]
    /\ popped' = [popped EXCEPT ![value'[t]] = @ + 1]
    /\ alive' = alive \ {old_head[t]}
    /\ freed' = freed \cup {old_head[t]}
    /\ old_head' = [old_head EXCEPT ![t] = Null]
    /\ next' = [next EXCEPT ![t] = Null]
    /\ ret' = [ret EXCEPT ![t] = "true"]
    /\ pc' = [pc EXCEPT ![t] = "idle"]
    /\ UNCHANGED <<notPublish, mem, new_node, ops, pushed>>

PublishNext ==
    \/ \E t \in Pushers :
         \/ \E v \in Values : PubPushBegin(t, v)
         \/ PubPushLoad(t)
         \/ PubPushLink(t)
         \/ PubPushCasOk(t)
         \/ PubPushCasFail(t)
    \/ \E t \in Poppers :
         \/ PubPopBegin(t)
         \/ PubPopEmpty(t)
         \/ PubPopReadNext(t)
         \/ PubPopCasOk(t)
         \/ PubPopCasFail(t)
         \/ PubPopTake(t)

SpecPublish == PublishInit /\ [][PublishNext]_vars

(***************************************************************************)
(* The programs that contain a CAS retry loop, one of them per run: prog   *)
(* names the program that runs.                                            *)
(***************************************************************************)
CounterLoopsInit ==
    /\ AllScheduled
    /\ BrokenIdle
    /\ StackIdle
    /\ \/ Running("05_lockfree_increment") /\ CounterIdle
       \/ Running("04_cas_bounded") /\ BoundedIdle

CounterLoopsNext ==
    \/ prog = "05_lockfree_increment" /\ CasNext
    \/ prog = "04_cas_bounded" /\ BoundedNext

\* 05_lockfree_increment.cpp or 04_cas_bounded.cpp
SpecCounterLoops == CounterLoopsInit /\ [][CounterLoopsNext]_vars

LoopsInit ==
    \/ CounterLoopsInit
    \/ /\ AllScheduled
       /\ BrokenIdle
       /\ StackIdle
       /\ CounterIdle
       /\ Running("06_lockfree_stack")

LoopsNext ==
    \/ CounterLoopsNext
    \/ prog = "06_lockfree_stack" /\ StackNext

\* 06_lockfree_stack.cpp, 05_lockfree_increment.cpp or 04_cas_bounded.cpp
SpecLoops == LoopsInit /\ [][LoopsNext]_vars

(***************************************************************************)
(* 06_lockfree_stack.cpp and 05_lockfree_increment.cpp under a scheduler   *)
(* that may stop running one thread for ever while the thread is inside a  *)
(* call of push, pop or lock_free_increment. The threads are std::threads  *)
(* (06 lines 78-81, 05 lines 37-38); the program has no means to keep the  *)
(* operating system from preempting one of them at any instruction.        *)
(***************************************************************************)
\* number of push/pop calls issued in one run under that scheduler
MaxHaltOps == 4
\* number of loop iterations of one worker_lockfree under that scheduler
MaxHaltIter == 1

\* the scheduler still runs thread t
Scheduled(t) == t \notin suspended

\* thread t is inside a call of push or pop
InStackCall(t) == pc[t] /= "idle"

\* worker w is inside a call of lock_free_increment
InIncrement(w) == cpc[w] /= "call"

\* the scheduler stops running thread t of 06_lockfree_stack.cpp for ever
SuspendStackThread(t) ==
    /\ prog = "06_lockfree_stack"
    /\ suspended = {}
    /\ InStackCall(t)
    /\ suspended' = {t}
    /\ UNCHANGED programVars

\* the scheduler stops running worker w of 05_lockfree_increment.cpp for ever
SuspendWorker(w) ==
    /\ prog = "05_lockfree_increment"
    /\ suspended = {}
    /\ InIncrement(w)
    /\ suspended' = {w}
    /\ UNCHANGED programVars

\* a step of a thread that runs pop
PopStep(t) ==
    PopEmpty(t) \/ PopReadNext(t) \/ PopCasOk(t) \/ PopCasFail(t) \/ PopTake(t)

\* a step of a worker that runs lock_free_increment
IncStep(w) == IncCasOk(w) \/ IncCasFail(w)

NonBlockingInit ==
    /\ AllScheduled
    /\ BrokenIdle
    /\ StackIdle
    /\ CounterIdle
    /\ Running("06_lockfree_stack") \/ Running("05_lockfree_increment")

\* the scheduler runs thread t of 06_lockfree_stack.cpp
RunsStackThread(t) == prog = "06_lockfree_stack" /\ Scheduled(t)

\* the scheduler runs worker w of 05_lockfree_increment.cpp
RunsWorker(w) == prog = "05_lockfree_increment" /\ Scheduled(w)

NonBlockingNext ==
    \/ \E t \in Pushers :
         \/ \E v \in Values :
              RunsStackThread(t) /\ ops < MaxHaltOps /\ PushBegin(t, v)
         \/ RunsStackThread(t) /\ PushLoad(t)
         \/ RunsStackThread(t) /\ PushLink(t)
         \/ RunsStackThread(t) /\ PushCasOk(t)
         \/ RunsStackThread(t) /\ PushCasFail(t)
    \/ \E t \in Poppers :
         \/ RunsStackThread(t) /\ ops < MaxHaltOps /\ PopBegin(t)
         \/ RunsStackThread(t) /\ PopEmpty(t)
         \/ RunsStackThread(t) /\ PopReadNext(t)
         \/ RunsStackThread(t) /\ PopCasOk(t)
         \/ RunsStackThread(t) /\ PopCasFail(t)
         \/ RunsStackThread(t) /\ PopTake(t)
    \/ \E t \in StackThreads : SuspendStackThread(t)
    \/ \E w \in Workers :
         \/ RunsWorker(w) /\ iter[w] < MaxHaltIter /\ IncLoad(w)
         \/ RunsWorker(w) /\ IncCasOk(w)
         \/ RunsWorker(w) /\ IncCasFail(w)
    \/ \E w \in Workers : SuspendWorker(w)

\* The scheduler keeps running every thread it has not suspended, and a
\* compare_exchange_weak whose expected value equals the location again and
\* again does not fail every time (as for StackFairness).
NonBlockingFairness ==
    /\ \A t \in Pushers :
         /\ WF_vars(Scheduled(t) /\ PushStep(t))
         /\ SF_vars(Scheduled(t) /\ PushCasOk(t))
    /\ \A t \in Poppers :
         /\ WF_vars(Scheduled(t) /\ PopStep(t))
         /\ SF_vars(Scheduled(t) /\ PopCasOk(t))
    /\ \A w \in Workers :
         /\ WF_vars(Scheduled(w) /\ IncStep(w))
         /\ SF_vars(Scheduled(w) /\ IncCasOk(w))

SpecNonBlocking ==
    NonBlockingInit /\ [][NonBlockingNext]_vars /\ NonBlockingFairness

(***************************************************************************)
(* What the claims about the stack speak of.                               *)
(***************************************************************************)
RECURSIVE ChainEndsAtNull(_, _)
\* following next from pointer a reaches nullptr within fuel links
ChainEndsAtNull(a, fuel) ==
    IF a = Null THEN TRUE
    ELSE IF fuel = 0 THEN FALSE
    ELSE ChainEndsAtNull(nxt[a], fuel - 1)

RECURSIVE ChainCount(_, _, _)
\* number of Nodes with payload v met on the first fuel links from pointer a
ChainCount(a, v, fuel) ==
    IF a = Null \/ fuel = 0 THEN 0
    ELSE (IF val[a] = v THEN 1 ELSE 0) + ChainCount(nxt[a], v, fuel - 1)

\* no push or pop call is in progress
Quiescent == \A t \in StackThreads : pc[t] = "idle"

\* the step is a successful CAS on head by thread t
CasSucceeds(t) ==
    \/ pc[t] = "push_cas" /\ pc'[t] = "idle"
    \/ pc[t] = "pop_cas" /\ pc'[t] = "pop_take"

\* C1: stack conservation. Whenever no call is in progress, every value has
\* been pushed exactly as often as it has been returned by a pop or is
\* still in the chain of head: nothing is lost, nothing is returned twice.
C1_Conservation ==
    Quiescent =>
        \A v \in Values : pushed[v] = popped[v] + ChainCount(head, v, NAddr)

\* C2: reclamation safety. No thread ever reads old_head->next or
\* old_head->value of a Node that a pop has already deleted.
C2_NoUseAfterFree == ~uaf

\* C3: a CAS on head by push or pop succeeds only if no other thread changed
\* head between this thread's observation of head and the swap, also when a
\* deleted Node's address is reused by a later push.
C3_CasOnlyIfUnchanged ==
    [][\A t \in StackThreads : CasSucceeds(t) => ~changed[t]]_vars

\* C4: head-chain invariant. Following next from head always reaches nullptr
\* through a finite chain without a cycle.
C4_ChainAcyclic == ChainEndsAtNull(head, NAddr)

(***************************************************************************)
(* What the claims about the counters speak of.                            *)
(***************************************************************************)
RECURSIVE Total(_, _)
\* the sum of f[t] over the threads t of S
Total(f, S) ==
    IF S = {} THEN 0
    ELSE LET t == CHOOSE x \in S : TRUE IN f[t] + Total(f, S \ {t})

\* C5: counter correctness with fetch_add. No update is lost: the counter,
\* started at 0, always equals the number of fetch_add(1) calls completed,
\* and after NWorkers threads have each executed MaxAdds of them and main
\* has joined them, the value main reads is NWorkers * MaxAdds.
C5_AtomicFinal ==
    /\ counter = Total(iter, Workers)
    /\ joined => final = NWorkers * MaxAdds

\* main has joined the fetch_add workers and read the counter
C5_Witness == joined /\ final > 0 /\ \A t \in Workers : iter[t] = MaxAdds

\* C6: counter correctness with the CAS retry loop. The counter minus its
\* initial value 0 always equals the number of compare-exchanges that have
\* succeeded, and after NWorkers threads have each completed MaxIter calls
\* of lock_free_increment the value main reads is NWorkers * MaxIter,
\* spurious failures of compare_exchange_weak included.
C6_CasCounter ==
    /\ counter - 0 = succ
    /\ joined => final = NWorkers * MaxIter

\* a worker whose compare-exchange has failed is about to make the last
\* increment of the run
C6_Witness ==
    \E t \in Workers :
        /\ cpc[t] = "cas"
        /\ attempted[t]
        /\ counter = NWorkers * MaxIter - 1

\* C7: bounded CAS ceiling. Started at or below Ceiling, the counter never
\* exceeds Ceiling, whatever the workers' calls of bounded_increment do.
C7_Ceiling == counter <= Ceiling

\* the counter is at the ceiling while a worker still holds an observation
\* below it
C7_Witness ==
    /\ counter = Ceiling
    /\ \E t \in Workers : cpc[t] = "test" /\ old[t] < Ceiling

\* worker t takes the step
StepOf(t) ==
    <<cpc[t], old[t], iter[t], attempted[t]>>' /=
        <<cpc[t], old[t], iter[t], attempted[t]>>

\* C8: no-op at the ceiling. Once the counter is at Ceiling no step changes
\* it, and a call of bounded_increment whose load returned Ceiling or more
\* attempts no compare-and-swap: its only step is the return, which leaves
\* the counter as it is. (The function is void: it has no way to report an
\* error.)
C8_NoOpAtCeiling ==
    [][/\ counter >= Ceiling => counter' = counter
       /\ \A t \in Workers :
            (cpc[t] = "test" /\ ~attempted[t] /\ old[t] >= Ceiling /\ StepOf(t)) =>
                /\ cpc'[t] = "call"
                /\ iter'[t] = iter[t] + 1
                /\ ~attempted'[t]
                /\ counter' = counter
                /\ succ' = succ]_vars

\* every call has returned, the counter was raised to the ceiling and fewer
\* compare-exchanges succeeded than calls were made: some calls were no-ops
C8_Witness ==
    /\ joined
    /\ final = Ceiling
    /\ succ > 0
    /\ succ < NWorkers * MaxIter

(***************************************************************************)
(* What the claims about the CAS retry loops speak of.                     *)
(***************************************************************************)
\* the step is a failed compare_exchange_weak on head by thread t
StackCasFails(t) ==
    \/ pc[t] = "push_cas" /\ pc'[t] = "push_link"
    \/ pc[t] = "pop_cas" /\ pc'[t] = "pop_test"

\* the step is a failed compare_exchange_weak on counter by worker w that
\* the worker can tell from no step at all
CounterCasFails(w) ==
    /\ cpc[w] \in {"cas", "test"}
    /\ cpc'[w] = cpc[w]
    /\ old'[w] /= old[w] \/ attempted'[w] /= attempted[w]

\* C11, as stated: lock-free progress. Whenever a thread's CAS in push, pop
\* or a CAS-loop increment fails, another thread's CAS on the same location
\* has succeeded since this thread's last observation of it.
C11_Progress ==
    [][/\ \A t \in StackThreads : StackCasFails(t) => changed[t]
       /\ \A w \in Workers : CounterCasFails(w) => moved[w]]_vars

\* C11, amended: whenever a thread's CAS fails while the location differs
\* from the value the thread expects, another thread's CAS on the location
\* has succeeded since this thread's last observation of it; the only other
\* failures are the spurious ones of compare_exchange_weak, which leave the
\* location equal to the expected value.
C11_ProgressUnlessSpurious ==
    [][/\ \A t \in StackThreads :
            (StackCasFails(t) /\ head /= old_head[t]) => changed[t]
       /\ \A w \in Workers :
            (CounterCasFails(w) /\ counter /= old[w]) => moved[w]]_vars

\* a thread's CAS on head has just failed because head had been changed
C11_Witness == \E t \in StackThreads : lastFail[t] = "contended"

\* thread t is inside a call of push
InPush(t) == pc[t] \in {"push_load", "push_link", "push_cas"}

\* the calls of push that have returned
PushesReturned ==
    Total(pushed, Values) - Cardinality({t \in Pushers : InPush(t)})

\* C12: every call of push made while other threads push and pop returns,
\* and it returns by the compare_exchange_weak that makes its new node the
\* head.
C12_PushTerminates ==
    /\ \A t \in Pushers : InPush(t) ~> pc[t] = "idle"
    /\ [][\A t \in Pushers :
            (InPush(t) /\ pc'[t] = "idle") =>
                /\ pc[t] = "push_cas"
                /\ head' = new_node[t]]_vars

\* two calls of push have returned while a thread's CAS has just failed
\* because head had changed
C12_Witness ==
    /\ PushesReturned >= 2
    /\ \E t \in Pushers : pc[t] = "idle"
    /\ \E u \in StackThreads : lastFail[u] = "contended"

\* the values pushed and not yet returned by a pop
Unpopped == {v \in DOMAIN pushed : pushed[v] > popped[v]}

\* the step is a return of true by pop in thread t
PopReturnsTrue(t) == pc[t] = "pop_take" /\ pc'[t] = "idle"

\* C13: LIFO order. With one thread calling push and pop and no other
\* thread, every successful pop returns the value pushed last among those
\* not yet popped.
C13_Lifo ==
    [][PopReturnsTrue(Caller) =>
          /\ ret'[Caller] = "true"
          /\ value'[Caller] \in Unpopped
          /\ \A v \in Unpopped : v <= value'[Caller]]_vars

\* 1 was pushed, 2 was pushed on top of it, and the pops have returned 2 and
\* then 1
C13_Witness ==
    /\ pc[Caller] = "idle"
    /\ ret[Caller] = "true"
    /\ value[Caller] = 1
    /\ popped[2] = 1
    /\ pushed[3] = 0

\* thread t is inside pop, has observed head == nullptr and takes a step
StepsAfterNull(t) ==
    pc[t] = "pop_test" /\ old_head[t] = Null /\ pc'[t] /= pc[t]

\* C14: empty pop. A pop that has observed head == nullptr returns false
\* with its next step: it executes no CAS, head and the caller's value are
\* left as they were, no node is touched and nothing faults.
C14_EmptyPop ==
    [][\A t \in Poppers :
          StepsAfterNull(t) =>
              /\ pc'[t] = "idle"
              /\ ret'[t] = "false"
              /\ ~StackCasFails(t) /\ ~CasSucceeds(t) /\ changed' = changed
              /\ head' = head
              /\ value'[t] = value[t]
              /\ <<alive, val, nxt>>' = <<alive, val, nxt>>
              /\ <<uaf, doubleFree, freed>>' = <<uaf, doubleFree, freed>>]_vars

\* a popper that has returned a value from an earlier call has now returned
\* false, and its value is still the one of the earlier call
C14_Witness ==
    \E t \in Poppers :
        pc[t] = "idle" /\ ret[t] = "false" /\ value[t] \in Values

\* thread t is inside the retry loop of push or pop and stays inside
InStackLoop(t) ==
    /\ pc[t] \in {"push_link", "push_cas", "pop_test", "pop_cas"}
    /\ pc'[t] \in {"push_link", "push_cas", "pop_test", "pop_cas"}

\* worker w is inside the retry loop of an increment and stays inside
InCounterLoop(w) == cpc[w] \in {"cas", "test"} /\ cpc'[w] = cpc[w]

\* C17: re-observation on failure. In push, pop, lock_free_increment and
\* bounded_increment a failed CAS leaves in the expected value the value
\* the location holds at that moment, nothing else changes the expected
\* value inside the loop, and before the CAS is tried again the proposal
\* is computed anew: push writes new_node->next = old_head, pop reads
\* old_head->next, the increments propose old + 1.
C17_Reobserve ==
    [][/\ \A t \in StackThreads :
            /\ StackCasFails(t) => old_head'[t] = head /\ head' = head
            /\ (InStackLoop(t) /\ old_head'[t] /= old_head[t]) =>
                    StackCasFails(t)
            /\ (pc[t] = "push_link" /\ pc'[t] = "push_cas") =>
                    /\ nxt'[new_node[t]] = old_head[t]
                    /\ old_head'[t] = old_head[t]
            /\ (pc[t] = "pop_test" /\ pc'[t] = "pop_cas") =>
                    /\ next'[t] \in ReadNext(t)
                    /\ old_head'[t] = old_head[t]
            /\ CasSucceeds(t) =>
                    head' = IF pc[t] = "push_cas" THEN new_node[t] ELSE next[t]
       /\ \A w \in Workers :
            /\ CounterCasFails(w) => old'[w] = counter /\ counter' = counter
            /\ (InCounterLoop(w) /\ old'[w] /= old[w]) => CounterCasFails(w)
            /\ (cpc[w] \in {"cas", "test"} /\ cpc'[w] = "call"
                    /\ counter' /= counter) =>
                    counter' = old[w] + 1 /\ counter = old[w]]_vars

\* the CAS of a pop has failed because another thread changed head; the
\* pop holds the new head, which is not null, and is about to read its next
C17_Witness ==
    \E t \in Poppers :
        /\ pc[t] = "pop_test"
        /\ lastFail[t] = "contended"
        /\ old_head[t] = head
        /\ head \in alive

\* the step is the return of worker w's call
Returns(w) == iter'[w] = iter[w] + 1

\* the step is a successful CAS of worker w
OwnCasSucceeds(w) ==
    /\ StepOf(w)
    /\ cpc[w] \in {"cas", "test"}
    /\ counter = old[w]
    /\ counter' = old[w] + 1
    /\ succ' = succ + 1

\* the step is worker w leaving bounded_increment because of the value it
\* has observed
Rejected(w) ==
    /\ prog = "04_cas_bounded"
    /\ cpc[w] = "test"
    /\ old[w] >= Ceiling
    /\ counter' = counter
    /\ succ' = succ

\* C18: loop exit. A call of lock_free_increment returns by its own
\* successful CAS and by nothing else; a call of bounded_increment returns
\* by its own successful CAS or, without one, after it has observed a value
\* of 100 or more. A successful CAS ends the call, so no call makes two.
C18_LoopExit ==
    [][/\ \A w \in Workers :
            /\ Returns(w) => OwnCasSucceeds(w) \/ Rejected(w)
            /\ OwnCasSucceeds(w) => Returns(w)
       /\ succ' /= succ =>
            \E w \in Workers :
                /\ OwnCasSucceeds(w)
                /\ \A u \in Workers \ {w} : ~Returns(u)]_vars

\* every call of bounded_increment has returned, some by their CAS and the
\* others without one, after a CAS that failed
C18_Witness ==
    /\ prog = "04_cas_bounded"
    /\ \A w \in Workers : iter[w] = MaxIter
    /\ succ > 0
    /\ succ < NWorkers * MaxIter
    /\ \E w \in Workers : attempted[w]

\* C19: single destruction. Every delete in pop is given a Node that has not
\* been deleted before, so no two pops delete the same Node, whatever the
\* interleaving and whether or not a freed address is reused by a push.
C19_SingleDestruction ==
    [][\A t \in Poppers : PopReturnsTrue(t) => old_head[t] \notin freed]_vars

\* the step is pop's read of old_head->next in thread t
ReadsLink(t) == pc[t] = "pop_test" /\ pc'[t] = "pop_cas"

\* C20: stack publication ordering. A pop reads the next link of the Node it
\* has loaded from head as the pusher wrote it at line 25 before publishing
\* the Node, never an earlier content of the field, and after its CAS it
\* reads the payload the pusher's constructor wrote.
C20_Publication ==
    [][\A t \in Poppers :
          /\ ReadsLink(t) => next'[t] = Latest(NextLoc(old_head[t])).val
          /\ PopReturnsTrue(t) =>
                value'[t] = Latest(ValueLoc(old_head[t])).val]_vars

(***************************************************************************)
(* What the claims about 09_cas_with_backoff.cpp speak of.                 *)
(***************************************************************************)
\* C15: backoff non-interference. With and without the backoff between
\* failed attempts, the counter equals the number of iterations the
\* NWorkers workers have completed, and after the joins main reads
\* NWorkers times the iterations of one worker.
C15_BackoffFinal ==
    /\ counter = Total(iter, Workers)
    /\ joined => final = NWorkers * MaxRounds

\* the test with backoff has ended after failed compare-exchanges, one
\* worker has failed twice in a row and paused twice as long the second time
C15_Witness ==
    /\ prog = "worker_with_backoff"
    /\ joined
    /\ final = NWorkers * MaxRounds
    /\ \E t \in Workers : streak[t] >= 2 /\ paused[t] >= 2

\* two to the n
RECURSIVE Pow2(_)
Pow2(n) == IF n = 0 THEN 1 ELSE 2 * Pow2(n - 1)

\* C16: backoff growth. In worker_with_backoff the pause after the k-th
\* failed compare-exchange in a row of one iteration lasts
\* min(2^(k-1), 64) units: 1, 2, 4, ..., 64, 64, ..., so between 1 and 64.
C16_BackoffGrowth ==
    \A t \in Workers :
        (prog = "worker_with_backoff" /\ streak[t] >= 1) =>
            /\ paused[t] = Min(Pow2(streak[t] - 1), BackoffCap)
            /\ paused[t] >= 1
            /\ paused[t] <= BackoffCap

\* a worker has failed eight times in a row; its eighth pause is capped
C16_Witness ==
    \E t \in Workers :
        /\ prog = "worker_with_backoff"
        /\ streak[t] >= 1
        /\ Pow2(streak[t] - 1) > BackoffCap
        /\ paused[t] = BackoffCap

(***************************************************************************)
(* What the claims about the handshake speak of.                           *)
(***************************************************************************)
\* the values of the writes to data thread t may read
ReadableData(t) == {mem["data"][i].val : i \in Readable(t, "data")}

\* C9: handshake visibility. Once consumer_correct has left its wait loop,
\* every read of data it can make yields 42: the value it streams is 42 and
\* the assertion data == 42 never fails.
C9_AcquireSees42 ==
    /\ (phase = 1 /\ hpc["consumer"] \in {"read", "print", "assert"}) =>
            ReadableData("consumer") = {42}
    /\ \A k \in DOMAIN out : out[k].who = "acquire" => out[k].data = 42
    /\ hpc["consumer"] /= "aborted"

\* consumer_correct has streamed data and passed its assertion
C9_Witness ==
    /\ phase = 1
    /\ hpc["consumer"] = "done"
    /\ out = <<[who |-> "acquire", data |-> 42]>>

\* C10: relaxed-handshake counterexample. Whenever consumer_broken has left
\* its wait loop and is about to read data, the stale 0 that main wrote
\* before Test 2 is among the values the read may yield, so an execution
\* in which it observes ready == true and reads 0 exists.
C10_RelaxedMayReadStale ==
    (phase = 2 /\ hpc["consumer"] = "read") => 0 \in ReadableData("consumer")

\* consumer_broken has observed ready == true and streamed the stale 0
C10_Witness ==
    /\ phase = 2
    /\ hpc["consumer"] = "done"
    /\ rdy
    /\ out[Len(out)] = [who |-> "relaxed", data |-> 0]

(***************************************************************************)
(* What the claim about suspended threads speaks of.                       *)
(***************************************************************************)
\* the scheduler can run a step of thread t of 06_lockfree_stack.cpp
StackThreadCanStep(t) == ENABLED (PushStep(t) \/ PopStep(t))

\* the scheduler can run a step of worker w of 05_lockfree_increment.cpp
WorkerCanStep(w) == ENABLED IncStep(w)

\* every thread that the scheduler still runs is outside push, pop and
\* lock_free_increment
ScheduledCallsReturned ==
    /\ \A t \in StackThreads : Scheduled(t) => ~InStackCall(t)
    /\ \A w \in Workers : Scheduled(w) => ~InIncrement(w)

\* C21: non-blocking. While one thread is suspended for ever inside push,
\* pop or lock_free_increment, every other thread that is inside a call can
\* take its next step whatever the other threads hold (it waits for
\* nothing), and under fair scheduling of the threads that are not suspended
\* every call of such a thread returns: the calls being finitely many, from
\* some state on no scheduled thread is inside a call.
C21_NonBlocking ==
    /\ [](\A t \in StackThreads : InStackCall(t) => StackThreadCanStep(t))
    /\ [](\A w \in Workers : InIncrement(w) => WorkerCanStep(w))
    /\ <>[]ScheduledCallsReturned

\* a pusher is suspended inside push before its compare_exchange_weak, the
\* other threads have changed head since it observed head, and every call
\* of the other threads has returned
C21_Witness ==
    \E s \in Pushers :
        /\ suspended = {s}
        /\ pc[s] = "push_cas"
        /\ changed[s]
        /\ ops = MaxHaltOps
        /\ \A t \in StackThreads \ {s} : pc[t] = "idle"
        /\ \E t \in Poppers : ret[t] = "true"

\* C22: backoff reset and locality. In worker_with_backoff every iteration
\* starts its retry sequence with backoff = 1, the first failed
\* compare-exchange of an iteration is followed by exactly 1 pause whatever
\* failures earlier iterations and other threads had, and a thread's backoff
\* changes by steps of that thread only.
C22_BackoffReset ==
    [][\A t \in Workers :
         /\ (cpc[t] = "call" /\ cpc'[t] = "cas") => backoff'[t] = 1
         /\ (streak[t] = 0 /\ streak'[t] = 1) => paused'[t] = 1
         /\ backoff'[t] /= backoff[t] => StepOf(t)]_vars

\* worker t is in its second iteration and has executed the pause after the
\* first failed compare-exchange of it, 1 instruction; its first iteration
\* had a failure (of the 2 failures counted, worker u has 1 and the other
\* workers none), and worker u stands at backoff 2 after a failure of its own
C22_Witness ==
    \E t, u \in Workers :
        /\ t /= u
        /\ prog = "worker_with_backoff"
        /\ iter[t] = 1 /\ cpc[t] = "count" /\ streak[t] = 1 /\ paused[t] = 1
        /\ iter[u] = 0 /\ cpc[u] = "cas" /\ streak[u] = 1 /\ backoff[u] = 2
        /\ failed = 2
        /\ \A w \in Workers \ {t, u} : iter[w] = 0 /\ cpc[w] = "call"

(***************************************************************************)
(* 06_lockfree_stack.cpp to its end: the threads of main run their calls,  *)
(* main joins them (lines 83-84) and returns, and the destructor of the    *)
(* global stack (line 58) runs in the main thread, alone. The main thread  *)
(* uses the locals of Caller, whose thread has ended by then.              *)
(***************************************************************************)
\* lines 83-84: for (auto& t : threads) t.join(); every call has returned
StackJoin ==
    /\ ~joined
    /\ Quiescent
    /\ joined' = TRUE
    /\ UNCHANGED <<stackVars, bkVars, hsVars, schedVars, brokenVars, counter,
                   cpc, old, iter, final, succ, attempted, moved>>

\* ~LockFreeStack has returned: pop(dummy) returned false
Destroyed == joined /\ pc[Caller] = "idle" /\ ret[Caller] = "false"

\* lines 54 and 38: while (pop(dummy)), the first call or the call after
\* one that returned true; Node* old_head = head.load(relaxed)
DtorPopBegin ==
    /\ joined
    /\ pc[Caller] = "idle"
    /\ ret[Caller] /= "false"
    /\ Observe(Caller)
    /\ pc' = [pc EXCEPT ![Caller] = "pop_test"]
    /\ UNCHANGED <<notStack, lastFail, head, alive, val, nxt, new_node, next,
                   value, ret, ops, pushed, popped, uaf, doubleFree, freed>>

\* lines 44-46 in the destructor's call: dummy = old_head->value;
\* delete old_head; return true. The value goes to dummy, no caller
\* receives it.
DtorPopTake ==
    /\ joined
    /\ pc[Caller] = "pop_take"
    /\ \E v \in ReadValue(Caller) : value' = [value EXCEPT ![Caller] = v]
    /\ uaf' = (uaf \/ dangling[Caller])
    /\ doubleFree' = (doubleFree \/ old_head[Caller] \notin alive)
    /\ alive' = alive \ {old_head[Caller]}
    /\ freed' = freed \cup {old_head[Caller]}
    /\ dangling' = [dangling EXCEPT ![Caller] = FALSE]
    /\ old_head' = [old_head EXCEPT ![Caller] = Null]
    /\ next' = [next EXCEPT ![Caller] = Null]
    /\ ret' = [ret EXCEPT ![Caller] = "true"]
    /\ pc' = [pc EXCEPT ![Caller] = "idle"]
    /\ UNCHANGED <<notStack, lastFail, head, val, nxt, new_node, ops, pushed,
                   popped, changed>>

\* lines 52-55: a step of ~LockFreeStack
DtorStep ==
    \/ DtorPopBegin
    \/ joined /\ PopEmpty(Caller)
    \/ joined /\ PopReadNext(Caller)
    \/ joined /\ PopCasOk(Caller)
    \/ joined /\ PopCasFail(Caller)
    \/ DtorPopTake

TeardownNext ==
    \/ \E t \in Pushers :
         \/ \E v \in Values : ~joined /\ PushBegin(t, v)
         \/ PushLoad(t)
         \/ PushLink(t)
         \/ PushCasOk(t)
         \/ PushCasFail(t)
    \/ \E t \in Poppers :
         \/ ~joined /\ PopBegin(t)
         \/ PopEmpty(t)
         \/ PopReadNext(t)
         \/ PopCasOk(t)
         \/ PopCasFail(t)
         \/ PopTake(t)
    \/ StackJoin
    \/ DtorPopBegin
    \/ joined /\ PopEmpty(Caller)
    \/ joined /\ PopReadNext(Caller)
    \/ joined /\ PopCasOk(Caller)
    \/ joined /\ PopCasFail(Caller)
    \/ DtorPopTake

\* The main thread keeps running, and its compare_exchange_weak, which
\* no other thread disturbs, does not fail spuriously for ever.
TeardownFairness ==
    WF_vars(DtorStep) /\ SF_vars(joined /\ PopCasOk(Caller))

SpecTeardown == StackInit /\ [][TeardownNext]_vars /\ TeardownFairness

\* the step is a delete executed by the destructor
DtorDeletes == joined /\ pc[Caller] = "pop_take" /\ pc'[Caller] = "idle"

\* C23: teardown drains the stack. Once main has joined the threads the
\* destructor returns; when it has returned head is nullptr and no node is
\* left allocated; and every delete of the destructor is given a node that
\* has not been deleted before.
C23_Teardown ==
    /\ joined ~> Destroyed
    /\ [](Destroyed => head = Null /\ alive = {})
    /\ [][DtorDeletes => old_head[Caller] \in alive]_vars

(***************************************************************************)
(* 03_atomic_broken.cpp. The atomics x and y are two locations of mem;     *)
(* every access is memory_order_relaxed: a store is ordered after the      *)
(* writer's earlier stores to the same location only, a load may read any  *)
(* write that is not older than the one the reader's view names.           *)
(***************************************************************************)
\* number of loop iterations of writer_thread and of reader_thread (the
\* source loops 100'000 times)
MaxBrokenIter == 2

\* lines 8-9: std::atomic<int> x{0}; std::atomic<int> y{0}
BrokenLocs == {"x", "y"}

BrokenBottom == [l \in BrokenLocs |-> 1]

\* lines 8-9 and 37-40: x{0}, y{0}, inconsistent_observations = 0, and both
\* threads started
BrokenInit ==
    /\ AllScheduled
    /\ StackIdle
    /\ CounterIdle
    /\ BrokenIdle
    /\ prog = "03_atomic_broken"
    /\ mem = [l \in BrokenLocs |-> <<[val |-> 0, rel |-> BrokenBottom]>>]
    /\ view = [t \in BrokenThreads |-> BrokenBottom]
    /\ hpc = [t \in BrokenThreads |-> IF t = "writer" THEN "x1" ELSE "load_x"]
    /\ spin_count = 0
    /\ phase = 1
    /\ rdy = FALSE
    /\ tmp = 0
    /\ out = <<>>

\* what the threads of 03_atomic_broken.cpp leave unchanged
notBroken ==
    <<stackVars, counterVars, bkVars, schedVars, prog, spin_count, phase,
      rdy, tmp, out>>

\* A store that writes the value to x and to y in one step.
StoreBoth(t, loc, v) ==
    /\ mem' = [l \in BrokenLocs |->
                 Append(mem[l], [val |-> v,
                                 rel |-> [BrokenBottom EXCEPT
                                            ![l] = Len(mem[l]) + 1]])]
    /\ view' = [view EXCEPT ![t] = [l \in BrokenLocs |-> Len(mem[l]) + 1]]

\* loc.store(v, memory_order_relaxed)
StoreRelaxed(t, loc, v) ==
    LET i == Len(mem[loc]) + 1 IN
    /\ mem' = [mem EXCEPT ![loc] =
                 Append(@, [val |-> v,
                            rel |-> [BrokenBottom EXCEPT ![loc] = i]])]
    /\ view' = [view EXCEPT ![t][loc] = i]

\* one store of writer_thread
WriterStore(at, loc, v, to) ==
    /\ hpc["writer"] = at
    /\ StoreRelaxed("writer", loc, v)
    /\ hpc' = [hpc EXCEPT !["writer"] = to]

\* lines 12-13: i < 100'000; x.store(1, relaxed)
WriterStoreX1 ==
    /\ loop_i["writer"] < MaxBrokenIter
    /\ WriterStore("x1", "x", 1, "y1")
    /\ UNCHANGED <<notBroken, brokenVars>>

\* line 14: y.store(1, relaxed)
WriterStoreY1 ==
    /\ WriterStore("y1", "y", 1, "x0")
    /\ UNCHANGED <<notBroken, brokenVars>>

\* line 16: x.store(0, relaxed)
WriterStoreX0 ==
    /\ WriterStore("x0", "x", 0, "y0")
    /\ UNCHANGED <<notBroken, brokenVars>>

\* lines 17 and 12: y.store(0, relaxed); ++i
WriterStoreY0 ==
    /\ WriterStore("y0", "y", 0, "x1")
    /\ loop_i' = [loop_i EXCEPT !["writer"] = @ + 1]
    /\ UNCHANGED <<notBroken, val_x, val_y, inconsistent_count, seen>>

\* lines 22-23: i < 100'000; int val_x = x.load(relaxed)
ReaderLoadX ==
    /\ hpc["reader"] = "load_x"
    /\ loop_i["reader"] < MaxBrokenIter
    /\ \E i \in Readable("reader", "x") :
        /\ val_x' = mem["x"][i].val
        /\ view' = [view EXCEPT !["reader"] = RelaxedView("reader", "x", i)]
    /\ hpc' = [hpc EXCEPT !["reader"] = "load_y"]
    /\ UNCHANGED <<notBroken, mem, val_y, inconsistent_count, loop_i, seen>>

\* line 24: int val_y = y.load(relaxed)
ReaderLoadY ==
    /\ hpc["reader"] = "load_y"
    /\ \E i \in Readable("reader", "y") :
        /\ val_y' = mem["y"][i].val
        /\ view' = [view EXCEPT !["reader"] = RelaxedView("reader", "y", i)]
    /\ hpc' = [hpc EXCEPT !["reader"] = "check"]
    /\ UNCHANGED <<notBroken, mem, val_x, inconsistent_count, loop_i, seen>>

\* line 27: one of val_x, val_y is 1 and the other is 0
Inconsistent(vx, vy) == (vx = 1 /\ vy = 0) \/ (vx = 0 /\ vy = 1)

\* lines 27-29 and 22: if (...) ++inconsistent_count; ++i
ReaderCheck ==
    /\ hpc["reader"] = "check"
    /\ inconsistent_count' =
         IF Inconsistent(val_x, val_y) THEN inconsistent_count + 1
         ELSE inconsistent_count
    /\ seen' = seen \cup {<<val_x, val_y>>}
    /\ loop_i' = [loop_i EXCEPT !["reader"] = @ + 1]
    /\ hpc' = [hpc EXCEPT !["reader"] = "load_x"]
    /\ UNCHANGED <<notBroken, mem, view, val_x, val_y>>

BrokenNext ==
    \/ WriterStoreX1
    \/ WriterStoreY1
    \/ WriterStoreX0
    \/ WriterStoreY0
    \/ ReaderLoadX
    \/ ReaderLoadY
    \/ ReaderCheck

SpecBroken == BrokenInit /\ [][BrokenNext]_vars

\* the values the load of loc by thread t may yield
ReadableValues(t, loc) == {mem[loc][i].val : i \in Readable(t, loc)}

\* C24: multi-variable invariants are not protected. Whenever the writer
\* stands between its two stores of 1, x holds 1 and y holds 0, and a reader
\* that has loaded x == 1 and is about to load y may read 0; whenever the
\* writer stands between its two stores of 0, x holds 0 and y holds 1, and a
\* reader that has loaded x == 0 and is about to load y may read 1. So
\* executions in which the reader observes x == 1 with y == 0, and x == 0
\* with y == 1, exist: x == y does not hold for observers.
C24_NotProtected ==
    /\ hpc["writer"] = "y1" =>
         /\ Latest("x").val = 1 /\ Latest("y").val = 0
         /\ (hpc["reader"] = "load_y" /\ val_x = 1) =>
                0 \in ReadableValues("reader", "y")
    /\ hpc["writer"] = "y0" =>
         /\ Latest("x").val = 0 /\ Latest("y").val = 1
         /\ (hpc["reader"] = "load_y" /\ val_x = 0) =>
                1 \in ReadableValues("reader", "y")

\* the reader has observed x == 1 with y == 0 in one iteration and x == 0
\* with y == 1 in another, and has counted both
C24_Witness ==
    /\ <<1, 0>> \in seen
    /\ <<0, 1>> \in seen
    /\ inconsistent_count = 2

(***************************************************************************)
(* What the claim about the increments of 04_cas_bounded.cpp speaks of.    *)
(***************************************************************************)
\* the value of the counter when the modelled calls began: every successful
\* compare-exchange since has added 1
CounterAtStart == counter - succ

\* the calls of bounded_increment that have returned
CallsReturned == Total(iter, Workers)

\* the calls of bounded_increment that are in progress
CallsInProgress == Cardinality({t \in Workers : cpc[t] = "test"})

\* C25: bounded CAS loses no increment below the ceiling. At any time the
\* counter has received one increment for every call that has returned, up
\* to the ceiling, and no more than one for every call begun; after the
\* joins main reads min(100, number of calls made), the counter's value
\* before the calls counted as that many calls.
C25_NoLostIncrement ==
    /\ counter >= Min(Ceiling, CounterAtStart + CallsReturned)
    /\ counter <=
         Min(Ceiling, CounterAtStart + CallsReturned + CallsInProgress)
    /\ joined => final = Min(Ceiling, CounterAtStart + NWorkers * MaxIter)

\* main has joined the workers and reads exactly 100: the calls began
\* MaxGap below the ceiling, MaxGap of them incremented the counter and the
\* others returned without a compare-exchange succeeding
C25_Witness ==
    /\ joined
    /\ final = Ceiling
    /\ succ = MaxGap
    /\ CallsReturned = NWorkers * MaxIter

(***************************************************************************)
(* What the claim about the nodes of the chain speaks of.                  *)
(***************************************************************************)
RECURSIVE ChainLive(_, _)
\* the first fuel nodes met by following next from pointer a are live
ChainLive(a, fuel) ==
    IF a = Null \/ fuel = 0 THEN TRUE
    ELSE a \in alive /\ ChainLive(nxt[a], fuel - 1)

\* C26: no destroyed node is linked. In every reachable state every node
\* reachable from head by following next links is live: it was allocated by
\* a push and has not been deleted by a pop since.
C26_NoDestroyedLinked == ChainLive(head, NAddr)

(***************************************************************************)
(* 07_producer_consumer.cpp and Demonstration 1 of                         *)
(* 08_polling_vs_lockfree.cpp under a scheduler that runs every thread     *)
(* again and again, except that it may stop running the producer for ever  *)
(* before the producer has stored ready = true.                            *)
(***************************************************************************)
\* the producer has been started and has not executed its store of true
ProducerBeforeSignal ==
    hpc["producer"] \in {"sleep", "asleep", "data", "store",
                         "poll_sleep", "poll_asleep", "poll_store"}

\* the scheduler stops running the producer for ever before its store
SuspendProducer ==
    /\ prog \in {"producer_consumer", "polling"}
    /\ suspended = {}
    /\ ProducerBeforeSignal
    /\ suspended' = {"producer"}
    /\ UNCHANGED programVars

\* 08 lines 14-18: the load returned false once more after MaxSpin
\* unsuccessful polls: ++spin_count; yield(). spin_count stands for
\* min(spin_count, MaxSpin) from here on.
PollingConsumerSpinOn ==
    /\ hpc["consumer"] = "poll_test"
    /\ ~rdy
    /\ spin_count = MaxSpin
    /\ Goto("consumer", "poll_load")
    /\ UNCHANGED <<notHs, prog, spin_count, mem, view, phase, rdy, tmp, out>>

\* a step of main
MainStep ==
    \/ MainResetData \/ MainResetReady
    \/ MainSpawnProducer \/ MainSpawnConsumer
    \/ MainJoinProducer \/ MainJoinConsumer
    \/ PollMainReset
    \/ PollMainSpawnProducer \/ PollMainSpawnConsumer
    \/ PollMainJoinProducer \/ PollMainJoinConsumer

\* a step of producer or polling_producer
ProducerStep ==
    \/ ProducerSleep \/ ProducerWake \/ ProducerWriteData \/ ProducerSignal
    \/ PollingProducerSleep \/ PollingProducerWake \/ PollingProducerSignal

\* 07 lines 23 and 34, 08 line 14: the load of ready in the loop condition
ConsumerLoad ==
    ConsumerCorrectLoad \/ ConsumerBrokenLoad \/ PollingConsumerLoad

\* a step of consumer_correct, consumer_broken or polling_consumer
ConsumerStep ==
    \/ ConsumerLoad
    \/ ConsumerLeaveLoop \/ ConsumerYield \/ ConsumerResume
    \/ ConsumerCorrectRead \/ ConsumerCorrectPrint \/ ConsumerCorrectAssert
    \/ ConsumerBrokenRead \/ ConsumerBrokenPrint
    \/ PollingConsumerSpin \/ PollingConsumerSpinOn \/ PollingConsumerPrint

HandshakeFairNext ==
    \/ MainResetData
    \/ MainResetReady
    \/ MainSpawnProducer
    \/ MainSpawnConsumer
    \/ MainJoinProducer
    \/ MainJoinConsumer
    \/ Scheduled("producer") /\ ProducerSleep
    \/ Scheduled("producer") /\ ProducerWake
    \/ Scheduled("producer") /\ ProducerWriteData
    \/ Scheduled("producer") /\ ProducerSignal
    \/ ConsumerCorrectLoad
    \/ ConsumerLeaveLoop
    \/ ConsumerYield
    \/ ConsumerResume
    \/ ConsumerCorrectRead
    \/ ConsumerCorrectPrint
    \/ ConsumerCorrectAssert
    \/ ConsumerBrokenLoad
    \/ ConsumerBrokenRead
    \/ ConsumerBrokenPrint
    \/ PollMainReset
    \/ PollMainSpawnProducer
    \/ PollMainSpawnConsumer
    \/ PollMainJoinProducer
    \/ PollMainJoinConsumer
    \/ Scheduled("producer") /\ PollingProducerSleep
    \/ Scheduled("producer") /\ PollingProducerWake
    \/ Scheduled("producer") /\ PollingProducerSignal
    \/ PollingConsumerLoad
    \/ PollingConsumerSpin
    \/ PollingConsumerSpinOn
    \/ PollingConsumerPrint
    \/ SuspendProducer

\* Every thread that is not suspended is a std::thread the scheduler runs
\* again and again, and a store to an atomic becomes visible to the loads
\* of the other threads in a finite time: a loop that loads ready again and
\* again does not read an older write for ever once true has been stored.
HandshakeFairness ==
    /\ WF_vars(MainStep)
    /\ WF_vars(Scheduled("producer") /\ ProducerStep)
    /\ WF_vars(ConsumerStep)
    /\ SF_vars(ConsumerLoad /\ rdy')

SpecHandshakeFair ==
    HandshakeInit /\ [][HandshakeFairNext]_vars /\ HandshakeFairness

\* the latest store to ready is the producer's store of true
Signalled == Latest("ready").val = TRUE

\* the consumer is inside its wait loop
ConsumerWaiting ==
    hpc["consumer"] \in {"load", "test", "yield", "poll_load", "poll_test"}

\* the consumer has left its wait loop
ConsumerPastLoop ==
    hpc["consumer"] \in {"read", "print", "assert", "done", "aborted",
                         "poll_done"}

\* the step is a store of false to ready
StoresFalse ==
    /\ Len(mem'["ready"]) > Len(mem["ready"])
    /\ mem'["ready"][Len(mem'["ready"])].val = FALSE

\* C27: handshake liveness. Under fair scheduling a consumer that is in its
\* wait loop once the producer has stored ready = true leaves the loop; no
\* store of false to ready is executed while a consumer is in its wait
\* loop; and the consumer is past its loop only if true has been stored,
\* so it stays in the loop for ever when the producer never signals.
C27_HandshakeLiveness ==
    /\ (Signalled /\ ConsumerWaiting) ~> ~ConsumerWaiting
    /\ [][StoresFalse => ~ConsumerWaiting]_vars
    /\ [](ConsumerPastLoop => Signalled)
    /\ []((suspended = {"producer"}) => ~ConsumerPastLoop)

\* polling_consumer has polled MaxSpin times without success, then observed
\* the producer's store and left its loop
C27_Witness ==
    /\ prog = "polling"
    /\ Signalled
    /\ hpc["consumer"] = "poll_done"
    /\ out = <<[who |-> "polling", data |-> MaxSpin]>>

=============================================================================
